---- MODULE Spec2Model ----
(***************************************************************************)
(* Trading core of Fitcher: risk manager, order manager, position manager, *)
(* strategy scheduler and the coordinator that wires them.                 *)
(*                                                                         *)
(* JavaScript runs one handler at a time and switches handlers only at an  *)
(* await, so every action below is one run of a handler from one await to  *)
(* the next.  Amounts and money are integers (whole units); ratios that    *)
(* the code compares as fractions are compared cross-multiplied.  Time is  *)
(* a counter of ticks, Date.now() reads it.                                *)
(***************************************************************************)
EXTENDS Integers, Sequences, FiniteSets, TLC

VARIABLES
  \* EnhancedRiskManager
  userData, peakEquity, consecutiveLosses, circuitBreakers, now, lastCheck,
  \* OrderManager
  orders, orderQueue, processing, creating, worker, openedLog, enqueuedLog,
  \* StrategyManager tables and TradingEngine.handleCircuitBreaker
  strategies, runningStrategies, activating, cbHandler, cbDone,
  \* PositionManager
  posHeap, positions, redisPositions, posCalls,
  \* the number of fills delivered so far
  fillsDone,
  \* StrategyManager.executeStrategies / RuleEngine.evaluateRules
  sched,
  \* TradingStrategy objects (status, error, signals, trades, execute calls)
  tradingStrategy,
  \* EventBus: subscribers, metrics, history and the publish calls in progress
  eventBus,
  \* MarketDataWebSocket: the venue client, its sockets and pending reconnects
  wsClient,
  \* StrategyManager.executionInterval: the execution loop's timer is set
  executionInterval,
  \* HistoricalDataIngestor: one ingest call and its ingestionJob row
  ingestion,
  \* ParquetWriter: one columnar file and the appendCandles calls on it
  parquet,
  \* HistoricalDataIngestor.detectGaps / repairGaps: stored candles, dataGap rows
  gapRepair,
  \* TradingEngine.handleOrderFilled: the position and what the fills delivered were
  fillFlow,
  \* StrategyManager.executeStrategies: the pass over the running strategies
  execPass,
  \* OrderManager.processOrder: the orders whose processing failed and the orderRejected events
  rejections,
  \* BacktestEngine with a MomentumStrategy instance and the results of its runs
  backtest,
  \* GridTradingStrategy instance, the clock and its last signal
  gridStrategy,
  \* StrategyManager: strategies, runningStrategies, the Redis keys and the calls waiting for Redis
  strategyManager,
  \* the orders createOrder made for risk-approved strategy signals, with the local day of their creation
  dailyFlow

riskVars  == <<userData, peakEquity, consecutiveLosses, circuitBreakers, now, lastCheck>>
orderVars == <<orders, orderQueue, processing, creating, worker, openedLog, enqueuedLog>>
coordVars == <<strategies, runningStrategies, activating, cbHandler, cbDone>>
posVars   == <<posHeap, positions, redisPositions, posCalls>>
dataVars  == <<parquet, gapRepair, fillFlow, execPass, rejections, backtest, gridStrategy, strategyManager, dailyFlow>>
extVars   == <<tradingStrategy, eventBus, wsClient, executionInterval, ingestion,
               dataVars>>
vars == <<riskVars, orderVars, coordVars, posVars, fillsDone, sched, extVars>>

Users == {"u1"}

Max(a, b) == IF a > b THEN a ELSE b
Min(a, b) == IF a < b THEN a ELSE b
Abs(a) == IF a < 0 THEN -a ELSE a

RECURSIVE SumSeq(_)
SumSeq(s) == IF s = <<>> THEN 0 ELSE Head(s) + SumSeq(Tail(s))

(***************************************************************************)
(* Bounds of the model                                                     *)
(***************************************************************************)
MaxTime == 4
MaxFills == 2

(***************************************************************************)
(* EnhancedRiskManager configuration (constructor, config.x || default).   *)
(* Ratios are percentages; durations are ticks.  The limits on counts and  *)
(* the durations are configured small (maxDailyTrades, maxConsecutiveLosses,*)
(* circuitBreakerDuration, tradeCooldownMs); the others are the defaults.  *)
(***************************************************************************)
maxPositionSize == 20
maxTotalExposure == 80
maxConcentration == 40
maxDailyLoss == 5
maxDailyTrades == 2
maxDailyVolume == 100000
maxDrawdownPercent == 10
maxConsecutiveLosses == 2
circuitBreakerDuration == 2
tradeCooldownMs == 1
maxSlippagePercent == 2
maxPriceDeviationPercent == 5
DefaultEquity == 100000
DayLen == 4

NoTime == -1

\* new Date().toDateString(): the local day of a tick
DateOf(t) == t \div DayLen

CheckNames == {"circuitBreaker", "dailyLimits", "positionSize", "exposure",
               "concentration", "cooldown", "drawdown", "consecutiveLosses",
               "slippage", "priceDeviation"}
CriticalChecks == {"drawdown", "consecutiveLosses", "dailyLimits"}

createDailyStats(t) ==
  [date |-> DateOf(t), tradeCount |-> 0, volume |-> 0, realizedPnL |-> 0]

NoUserData ==
  [initialized |-> FALSE, dailyStats |-> createDailyStats(0),
   lastTradeTime |-> NoTime, initialEquity |-> 0]

NoBreaker == [active |-> FALSE, triggeredAt |-> 0, reasons |-> {}]

\* The risk manager's four maps as one record, so that the checks compose in
\* the order checkTrade evaluates them.
RiskState == [ud |-> userData, pk |-> peakEquity, cl |-> consecutiveLosses,
              cb |-> circuitBreakers]

\* initializeUser(userId, initialEquity = 100000); equity 0 stands for undefined
initializeUser(R, u, equity) ==
  IF R.ud[u].initialized THEN R
  ELSE LET eq == IF equity = 0 THEN DefaultEquity ELSE equity IN
       [R EXCEPT !.ud[u] = [initialized |-> TRUE, dailyStats |-> createDailyStats(now),
                            lastTradeTime |-> NoTime, initialEquity |-> eq],
                 !.pk[u] = eq,
                 !.cl[u] = 0]

\* tradeValue = (amount || 0) * (price || 0)
TradeValue(tp) == tp.amount * tp.price
\* portfolio.totalValue || 100000
PortfolioValue(pf) == IF pf.totalValue = 0 THEN DefaultEquity ELSE pf.totalValue

\* checkCircuitBreaker: <<allowed, state after>>
checkCircuitBreakerMutLE(R, u) ==
  LET b == R.cb[u] IN
  IF b.active
  THEN IF now - b.triggeredAt <= circuitBreakerDuration
       THEN <<FALSE, R>>
       ELSE <<TRUE, [R EXCEPT !.cb[u] = NoBreaker]>>
  ELSE <<TRUE, R>>

checkCircuitBreaker(R, u) ==
  LET b == R.cb[u] IN
  IF b.active
  THEN IF now - b.triggeredAt < circuitBreakerDuration
       THEN <<FALSE, R>>
       ELSE <<TRUE, [R EXCEPT !.cb[u] = NoBreaker]>>
  ELSE <<TRUE, R>>

\* checkDailyLimits: `stats` is read before the new-day reset and the limits
\* are evaluated on that object
checkDailyLimits(R, u, tp) ==
  LET stats == R.ud[u].dailyStats
      R1 == IF stats.date # DateOf(now)
            THEN [R EXCEPT !.ud[u].dailyStats = createDailyStats(now)]
            ELSE R
      dailyLoss == Abs(Min(0, stats.realizedPnL))
      equity == IF R.ud[u].initialEquity = 0 THEN DefaultEquity ELSE R.ud[u].initialEquity
      ok == /\ ~(dailyLoss * 100 >= equity * maxDailyLoss)
            /\ ~(stats.tradeCount >= maxDailyTrades)
            /\ ~(stats.volume + TradeValue(tp) > maxDailyVolume)
  IN <<ok, R1>>

checkPositionSize(tp, pf) ==
  ~(TradeValue(tp) * 100 > maxPositionSize * PortfolioValue(pf))

checkTotalExposure(tp, pf) ==
  ~((pf.totalExposure + TradeValue(tp)) * 100 > maxTotalExposure * PortfolioValue(pf))

checkConcentration(tp, pf) ==
  IF ~tp.hasPair THEN TRUE
  ELSE ~((pf.assetValue + TradeValue(tp)) * 100 > maxConcentration * PortfolioValue(pf))

checkCooldown(R, u) ==
  IF R.ud[u].lastTradeTime # NoTime
  THEN ~(now - R.ud[u].lastTradeTime < tradeCooldownMs)
  ELSE TRUE

\* checkDrawdown: <<allowed, state after>>; peak = peakEquity.get(u) || equity
checkDrawdown(R, u, pf) ==
  LET currentEquity == pf.totalValue
      peak == IF R.pk[u] = 0 THEN currentEquity ELSE R.pk[u]
  IN IF currentEquity > peak
     THEN <<TRUE, [R EXCEPT !.pk[u] = currentEquity]>>
     ELSE IF peak = 0 THEN <<TRUE, R>>
     ELSE <<~((peak - currentEquity) * 100 >= maxDrawdownPercent * peak), R>>

checkConsecutiveLosses(R, u) == ~(R.cl[u] >= maxConsecutiveLosses)

checkSlippage(tp) ==
  IF tp.expectedPrice = 0 \/ tp.executionPrice = 0 THEN TRUE
  ELSE ~(Abs(tp.executionPrice - tp.expectedPrice) * 100 > maxSlippagePercent * tp.expectedPrice)

checkPriceDeviation(tp) ==
  IF tp.price = 0 \/ tp.marketPrice = 0 THEN TRUE
  ELSE ~(Abs(tp.price - tp.marketPrice) * 100 > maxPriceDeviationPercent * tp.marketPrice)

\* triggerCircuitBreaker(userId, reasons)
triggerCircuitBreaker(R, u, reasons) ==
  [R EXCEPT !.cb[u] = [active |-> TRUE, triggeredAt |-> now, reasons |-> reasons]]

\* criticalFailures of checkTrade
CriticalFailuresMutNoDaily(failed) == failed \cap {"drawdown", "consecutiveLosses"}

CriticalFailures(failed) == failed \cap CriticalChecks

\* checkTrade(userId, tradeParams, portfolio): the result, the state after it
\* and what the call did, as one record
checkTrade(u, tp, pf) ==
  LET R0 == initializeUser(RiskState, u, pf.totalValue)
      cbr == checkCircuitBreaker(R0, u)
      dlr == checkDailyLimits(cbr[2], u, tp)
      R2 == dlr[2]
      ddr == checkDrawdown(R2, u, pf)
      R3 == ddr[2]
      checks == [c \in CheckNames |->
                  CASE c = "circuitBreaker" -> cbr[1]
                    [] c = "dailyLimits" -> dlr[1]
                    [] c = "positionSize" -> checkPositionSize(tp, pf)
                    [] c = "exposure" -> checkTotalExposure(tp, pf)
                    [] c = "concentration" -> checkConcentration(tp, pf)
                    [] c = "cooldown" -> checkCooldown(R2, u)
                    [] c = "drawdown" -> ddr[1]
                    [] c = "consecutiveLosses" -> checkConsecutiveLosses(R3, u)
                    [] c = "slippage" -> checkSlippage(tp)
                    [] c = "priceDeviation" -> checkPriceDeviation(tp)]
      failed == {c \in CheckNames : ~checks[c]}
      critical == CriticalFailures(failed)
      R4 == IF critical # {} THEN triggerCircuitBreaker(R3, u, critical) ELSE R3
  IN [allowed |-> failed = {},
      checks |-> checks,
      failedChecks |-> failed,
      triggered |-> critical # {},
      cleared |-> RiskState.cb[u].active /\ ~cbr[2].cb[u].active,
      after |-> R4]

NoCheck ==
  [user |-> "none", at |-> 0, breakerWasActive |-> FALSE, triggeredAt |-> 0,
   allowed |-> TRUE, checks |-> [c \in CheckNames |-> TRUE], failedChecks |-> {},
   triggered |-> FALSE, cleared |-> FALSE, breakerAfter |-> NoBreaker]

\* What a checkTrade call leaves behind in the risk manager's state
ApplyCheck(u, res) ==
  /\ userData' = res.after.ud
  /\ peakEquity' = res.after.pk
  /\ consecutiveLosses' = res.after.cl
  /\ circuitBreakers' = res.after.cb
  /\ lastCheck' = [user |-> u, at |-> now,
                   breakerWasActive |-> circuitBreakers[u].active,
                   triggeredAt |-> circuitBreakers[u].triggeredAt,
                   allowed |-> res.allowed, checks |-> res.checks,
                   failedChecks |-> res.failedChecks,
                   triggered |-> res.triggered, cleared |-> res.cleared,
                   breakerAfter |-> res.after.cb[u]]

\* handleTrade({order, userId}): the trade observer on trading:orderFilled.
\* realizedPnL 0 stands for an order without that field.
handleTrade(R, u, order) ==
  LET R0 == initializeUser(R, u, 0)
      ds == R0.ud[u].dailyStats
      ds1 == [ds EXCEPT !.tradeCount = @ + 1,
                        !.volume = @ + order.filledAmount * order.averagePrice,
                        !.realizedPnL = @ + order.realizedPnL]
      R1 == [R0 EXCEPT !.ud[u].dailyStats = ds1, !.ud[u].lastTradeTime = now]
  IN IF order.realizedPnL # 0
     THEN [R1 EXCEPT !.cl[u] = IF order.realizedPnL < 0 THEN @ + 1 ELSE 0]
     ELSE R1

\* a step that is no call of the risk manager: lastCheck holds the result
\* of the checkTrade that has just returned and nothing else
RiskUntouched ==
  /\ lastCheck' = NoCheck
  /\ UNCHANGED <<userData, peakEquity, consecutiveLosses, circuitBreakers, now>>

ApplyRisk(R) ==
  /\ userData' = R.ud
  /\ peakEquity' = R.pk
  /\ consecutiveLosses' = R.cl
  /\ circuitBreakers' = R.cb

(***************************************************************************)
(* SpecRisk: the risk manager driven through its public operations.        *)
(***************************************************************************)
TradeParamsSet ==
  { [amount |-> 2, price |-> 100, marketPrice |-> 100, expectedPrice |-> 0,
     executionPrice |-> 0, hasPair |-> TRUE],
    [amount |-> 300, price |-> 100, marketPrice |-> 100, expectedPrice |-> 0,
     executionPrice |-> 0, hasPair |-> TRUE],
    [amount |-> 2, price |-> 110, marketPrice |-> 100, expectedPrice |-> 100,
     executionPrice |-> 103, hasPair |-> FALSE] }

PortfolioSet ==
  { [totalValue |-> 100000, totalExposure |-> 0, assetValue |-> 0],
    [totalValue |-> 100000, totalExposure |-> 60000, assetValue |-> 30000],
    [totalValue |-> 89000, totalExposure |-> 0, assetValue |-> 0] }

FillSet ==
  { [filledAmount |-> 2, averagePrice |-> 100, realizedPnL |-> 0],
    [filledAmount |-> 2, averagePrice |-> 100, realizedPnL |-> -5100],
    [filledAmount |-> 2, averagePrice |-> 100, realizedPnL |-> 300],
    [filledAmount |-> 600, averagePrice |-> 100, realizedPnL |-> -100] }

RiskInit ==
  /\ userData = [u \in Users |-> NoUserData]
  /\ peakEquity = [u \in Users |-> 0]
  /\ consecutiveLosses = [u \in Users |-> 0]
  /\ circuitBreakers = [u \in Users |-> NoBreaker]
  /\ now = 0
  /\ lastCheck = NoCheck

RiskCheckTrade ==
  \E u \in Users, tp \in TradeParamsSet, pf \in PortfolioSet :
    /\ ApplyCheck(u, checkTrade(u, tp, pf))
    /\ UNCHANGED now
    /\ UNCHANGED <<orderVars, coordVars, posVars, fillsDone, sched, extVars>>

RiskHandleTrade ==
  \E u \in Users, f \in FillSet :
    /\ fillsDone < MaxFills
    /\ fillsDone' = fillsDone + 1
    /\ ApplyRisk(handleTrade(RiskState, u, f))
    /\ lastCheck' = NoCheck
    /\ UNCHANGED now
    /\ UNCHANGED <<orderVars, coordVars, posVars, sched, extVars>>

\* resetCircuitBreaker(userId)
ResetCircuitBreaker ==
  \E u \in Users :
    /\ circuitBreakers[u].active
    /\ circuitBreakers' = [circuitBreakers EXCEPT ![u] = NoBreaker]
    /\ lastCheck' = NoCheck
    /\ UNCHANGED <<userData, peakEquity, consecutiveLosses, now, orderVars, coordVars, posVars, fillsDone, sched, extVars>>

AdvanceTime ==
  /\ now < MaxTime
  /\ now' = now + 1
  /\ lastCheck' = NoCheck
  /\ UNCHANGED <<userData, peakEquity, consecutiveLosses, circuitBreakers, orderVars, coordVars, posVars, fillsDone, sched, extVars>>


(***************************************************************************)
(* Order model (models/order.js)                                           *)
(***************************************************************************)
MaxOrders == 2
OrderIds == 1..MaxOrders

\* OrderValidator.defaultLimits
maxOrderAmount == 1000
minOrderValue == 10
maxOrderValue == 100000
\* simulateOrderExecution: order.price || 50000
MockPrice == 50000

ActiveStatuses == {"pending", "open", "partial"}
TerminalStatuses == {"filled", "cancelled", "rejected", "expired"}

NoOrder ==
  [userId |-> "none", type |-> "none", amount |-> 0, price |-> 0, status |-> "none",
   trades |-> <<>>, filledAmount |-> 0, remainingAmount |-> 0,
   origin |-> "none", approved |-> FALSE]

\* new Order(params); origin and approved record how the coordinator came to
\* create it
NewOrder(p, origin, approved) ==
  [userId |-> p.userId, type |-> p.type, amount |-> p.amount, price |-> p.price,
   status |-> "pending", trades |-> <<>>, filledAmount |-> 0,
   remainingAmount |-> p.amount, origin |-> origin, approved |-> approved]

\* Order.updateStatus(newStatus): no caller passes filledAmount/averagePrice/fee
updateStatus(o, newStatus) == [o EXCEPT !.status = newStatus]

\* Order.addTrade(trade): filled and remaining are recomputed from the trades
addTrade(o, amt) ==
  LET trades == Append(o.trades, amt)
      totalFilled == SumSeq(trades)
      o1 == [o EXCEPT !.trades = trades, !.filledAmount = totalFilled,
                      !.remainingAmount = o.amount - totalFilled]
  IN IF o1.remainingAmount <= 0 THEN updateStatus(o1, "filled")
     ELSE IF o1.filledAmount > 0 THEN updateStatus(o1, "partial")
     ELSE o1

isActive(o) == o.status \in ActiveStatuses
canCancel(o) == o.status \in ActiveStatuses

\* the price of every trade simulateOrderExecution appends to o
FillPrice(o) == IF o.price # 0 THEN o.price ELSE MockPrice

(***************************************************************************)
(* OrderValidator (validate, validateAmount, validateOrderValue,           *)
(* validateUpdate); price 0 stands for no price                            *)
(***************************************************************************)
validateAmount(a) == a > 0 /\ a <= maxOrderAmount

validateOrderValue(a, p) == a * p >= minOrderValue /\ a * p <= maxOrderValue

validate(p) ==
  /\ validateAmount(p.amount)
  /\ (p.type = "limit" => p.price # 0)
  /\ (p.amount # 0 /\ p.price # 0 => validateOrderValue(p.amount, p.price))

validateUpdate(o, newAmount) ==
  /\ o.status \in ActiveStatuses
  /\ ~(newAmount > o.amount)
  /\ validateAmount(newAmount)
  /\ ~(newAmount < o.filledAmount)

(***************************************************************************)
(* OrderManager (services/orderManager.js)                                 *)
(***************************************************************************)
OMState == [orders |-> orders, q |-> orderQueue, processing |-> processing,
            workers |-> worker, opened |-> openedLog, enq |-> enqueuedLog,
            creating |-> creating]

ApplyOM(S) ==
  /\ orders' = S.orders
  /\ orderQueue' = S.q
  /\ processing' = S.processing
  /\ worker' = S.workers
  /\ openedLog' = S.opened
  /\ enqueuedLog' = S.enq
  /\ creating' = S.creating

NextOrderId == Cardinality({o \in OrderIds : orders[o].status # "none"}) + 1

\* processQueue, one turn of its while loop up to processOrder's first await:
\* shift the head, mark it open
TakeNext(S) ==
  LET h == Head(S.q) IN
  [S EXCEPT !.q = Tail(S.q),
            !.orders[h] = updateStatus(@, "open"),
            !.workers = @ \cup {[order |-> h, pc |-> "persistOpen"]},
            !.opened = Append(@, h)]

\* processQueue(): returns at once when a run is in progress or nothing is queued
processQueue(S) ==
  IF S.processing \/ Len(S.q) = 0 THEN S
  ELSE TakeNext([S EXCEPT !.processing = TRUE])

\* createOrder up to `await this.persistOrder(order)`: validate, construct, store
createOrderStore(S, p, origin, approved) ==
  IF validate(p) /\ NextOrderId <= MaxOrders
  THEN [S EXCEPT !.orders[NextOrderId] = NewOrder(p, origin, approved),
                 !.creating = @ \cup {NextOrderId}]
  ELSE S

\* createOrder after the persist: enqueue, start the worker, emit orderCreated
createOrderEnqueueMutAlwaysStart(S, id) ==
  TakeNext([S EXCEPT !.q = Append(@, id), !.enq = Append(@, id),
                     !.creating = @ \ {id}, !.processing = TRUE])

createOrderEnqueue(S, id) ==
  LET S1 == [S EXCEPT !.q = Append(@, id), !.enq = Append(@, id),
                      !.creating = @ \ {id}]
  IN IF ~S1.processing THEN processQueue(S1) ELSE S1

\* the loop mutated: it ends after one order
workerLoopMutStop(S, w) ==
  [S EXCEPT !.workers = @ \ {w}, !.processing = FALSE]

\* processQueue after `await this.processOrder(order)`: next turn of the loop,
\* or the finally block
workerLoop(S, w) ==
  LET S1 == [S EXCEPT !.workers = @ \ {w}] IN
  IF Len(S1.q) > 0 THEN TakeNext(S1) ELSE [S1 EXCEPT !.processing = FALSE]

SetPc(S, w, pc) == [S EXCEPT !.workers = (@ \ {w}) \cup {[w EXCEPT !.pc = pc]}]

\* processOrder resumes after persisting the open order: emit orderOpened and
\* enter simulateOrderExecution, which waits 1000 ms
WorkerOpened ==
  \E w \in worker :
    /\ w.pc = "persistOpen"
    /\ ApplyOM(SetPc(OMState, w, "delay1"))
    /\ RiskUntouched
    /\ UNCHANGED <<coordVars, posVars, fillsDone, sched, extVars>>

\* simulateOrderExecution after the first delay: half of a limit order
\* (amount * 0.5; every amount the model reaches is even), or the whole of
\* any other order
WorkerFirstFill ==
  \E w \in worker :
    /\ w.pc = "delay1"
    /\ LET o == orders[w.order] IN
       IF o.type = "limit"
       THEN ApplyOM(SetPc([OMState EXCEPT !.orders[w.order] = addTrade(o, o.amount \div 2)],
                          w, "persistPartial"))
       ELSE ApplyOM(SetPc([OMState EXCEPT !.orders[w.order] = addTrade(o, o.amount)],
                          w, "persistFinal"))
    /\ RiskUntouched
    /\ UNCHANGED <<coordVars, posVars, fillsDone, sched, extVars>>

\* after persisting the partial fill: emit orderPartiallyFilled, wait 2000 ms
WorkerPartialEmitted ==
  \E w \in worker :
    /\ w.pc = "persistPartial"
    /\ ApplyOM(SetPc(OMState, w, "delay2"))
    /\ RiskUntouched
    /\ UNCHANGED <<coordVars, posVars, fillsDone, sched, extVars>>

\* after the second delay: fill what remains
WorkerSecondFill ==
  \E w \in worker :
    /\ w.pc = "delay2"
    /\ LET o == orders[w.order] IN
       ApplyOM(SetPc([OMState EXCEPT !.orders[w.order] = addTrade(o, o.remainingAmount)],
                     w, "persistFinal"))
    /\ RiskUntouched
    /\ UNCHANGED <<coordVars, posVars, fillsDone, sched, extVars>>

\* after the last persist: emit orderFilled (TradingEngine.handleOrderFilled
\* publishes trading:orderFilled, on which the risk manager's handleTrade runs),
\* then processQueue goes on
WorkerFilled ==
  \E w \in worker :
    /\ w.pc = "persistFinal"
    /\ LET o == orders[w.order] IN
       ApplyRisk(handleTrade(RiskState, o.userId,
                             [filledAmount |-> o.filledAmount,
                              averagePrice |-> FillPrice(o), realizedPnL |-> 0]))
    /\ ApplyOM(workerLoop(OMState, w))
    /\ lastCheck' = NoCheck
    /\ UNCHANGED <<now, coordVars, posVars, fillsDone, sched, extVars>>

\* createOrder resumes after its persist
CreateOrderEnqueue ==
  \E id \in creating :
    /\ ApplyOM(createOrderEnqueue(OMState, id))
    /\ RiskUntouched
    /\ UNCHANGED <<coordVars, posVars, fillsDone, sched, extVars>>

\* cancelOrder(orderId) on an order that can be cancelled
cancelOrder(S, id) ==
  IF canCancel(S.orders[id])
  THEN [S EXCEPT !.orders[id] = updateStatus(@, "cancelled")]
  ELSE S

CancelOrder ==
  \E id \in OrderIds :
    /\ canCancel(orders[id])
    /\ ApplyOM(cancelOrder(OMState, id))
    /\ RiskUntouched
    /\ UNCHANGED <<coordVars, posVars, fillsDone, sched, extVars>>

\* updateOrder(orderId, {amount})
updateOrderMutKeepRemaining(o, newAmount) ==
  IF validateUpdate(o, newAmount) THEN [o EXCEPT !.amount = newAmount] ELSE o

updateOrder(o, newAmount) ==
  IF validateUpdate(o, newAmount)
  THEN [o EXCEPT !.amount = newAmount, !.remainingAmount = newAmount - o.filledAmount]
  ELSE o

UpdateAmounts == {2, 4}

UpdateOrder ==
  \E id \in OrderIds, a \in UpdateAmounts :
    /\ orders[id].status # "none"
    /\ a # orders[id].amount
    /\ validateUpdate(orders[id], a)
    /\ ApplyOM([OMState EXCEPT !.orders[id] = updateOrder(@, a)])
    /\ RiskUntouched
    /\ UNCHANGED <<coordVars, posVars, fillsDone, sched, extVars>>


(***************************************************************************)
(* StrategyManager tables (services/tradingEngine.js) and TradingStrategy  *)
(* status (activate, deactivate)                                           *)
(***************************************************************************)
MaxStrategies == 1
StrategyIds == 1..MaxStrategies

NoStrategy == [exists |-> FALSE, userId |-> "none", status |-> "inactive"]

StrategiesOf(strats, u) == {s \in StrategyIds : strats[s].exists /\ strats[s].userId = u}

\* the elements of a set of numbers, ascending (Map and Set iterate in
\* insertion order, ids are handed out ascending)
RECURSIVE Ascending(_)
Ascending(S) ==
  IF S = {} THEN <<>>
  ELSE LET m == CHOOSE x \in S : \A y \in S : x <= y IN <<m>> \o Ascending(S \ {m})

\* newest first: getUserOrders sorts by createdAt descending
RECURSIVE Descending(_)
Descending(S) ==
  IF S = {} THEN <<>>
  ELSE LET m == CHOOSE x \in S : \A y \in S : x >= y IN <<m>> \o Descending(S \ {m})

\* createStrategy(userId, config)
CreateStrategy ==
  \E u \in Users, s \in StrategyIds :
    /\ ~strategies[s].exists
    /\ \A t \in StrategyIds : t < s => strategies[t].exists
    /\ strategies' = [strategies EXCEPT ![s] = [exists |-> TRUE, userId |-> u,
                                                status |-> "inactive"]]
    /\ RiskUntouched
    /\ UNCHANGED <<orderVars, runningStrategies, activating, cbHandler, cbDone, posVars, fillsDone, sched, extVars>>

(***************************************************************************)
(* TradingEngine.handleCircuitBreaker: one run per triggered breaker.      *)
(*   strats, ords : the snapshots getUserStrategies / getUserOrders gave   *)
(*   i            : the index the run is awaiting the persist of           *)
(*   cancelled    : orders whose cancelOrder succeeded                     *)
(*   finished     : orders that had left the active statuses by themselves *)
(*                  when their cancelOrder ran                             *)
(***************************************************************************)
IdleHandler ==
  [pc |-> "idle", user |-> "none", strats |-> <<>>, ords |-> <<>>, i |-> 0,
   cancelled |-> {}, finished |-> {}]

\* what a finished run of handleCircuitBreaker left, read at its last step:
\*   wereActive : the orders of its snapshot
\*   notCancelled : those of them it called cancelOrder on with success and
\*                  that are not cancelled when it finishes
NotHandled == [done |-> FALSE, strategiesInactive |-> TRUE, wereActive |-> {},
               finished |-> {}, notCancelled |-> {}]

\* the coordinator's tables as one record, so that the steps of the handler compose
CoordState(S) == [strategies |-> strategies, running |-> runningStrategies,
                  om |-> S, h |-> cbHandler, done |-> cbDone]

ApplyCoord(C) ==
  /\ strategies' = C.strategies
  /\ runningStrategies' = C.running
  /\ cbHandler' = C.h
  /\ cbDone' = C.done
  /\ ApplyOM(C.om)

\* the end of handleCircuitBreaker: publish trading:circuitBreaker
handlerFinish(C) ==
  LET u == C.h.user IN
  [C EXCEPT !.done[u] =
              [done |-> TRUE,
               strategiesInactive |->
                 \A s \in StrategiesOf(C.strategies, u) : C.strategies[s].status = "inactive",
               wereActive |-> {C.h.ords[k] : k \in 1..Len(C.h.ords)},
               finished |-> C.h.finished,
               notCancelled |-> {id \in C.h.cancelled : C.om.orders[id].status # "cancelled"}],
            !.h = IdleHandler]

\* the cancel loop from index j on: cancelOrder on each order of the snapshot;
\* a refused cancelOrder returns without waiting, a successful one awaits the
\* persist of the cancelled order
RECURSIVE handlerCancelFrom(_, _)
handlerCancelFrom(C, j) ==
  IF j > Len(C.h.ords) THEN handlerFinish(C)
  ELSE LET id == C.h.ords[j] IN
       IF canCancel(C.om.orders[id])
       THEN [C EXCEPT !.om = cancelOrder(C.om, id),
                      !.h.pc = "cancelPersist", !.h.i = j,
                      !.h.cancelled = @ \cup {id}]
       ELSE handlerCancelFrom([C EXCEPT !.h.finished = @ \cup {id}], j + 1)

\* getUserOrders(userId) and the filter on the status in each summary
handlerOrders(C) ==
  LET u == C.h.user
      act == {id \in OrderIds : C.om.orders[id].userId = u /\ isActive(C.om.orders[id])}
  IN handlerCancelFrom([C EXCEPT !.h.ords = Descending(act)], 1)

\* the deactivate loop from index j on: deactivateStrategy up to its persist
handlerDeactivateFrom(C, j) ==
  IF j > Len(C.h.strats) THEN handlerOrders(C)
  ELSE [C EXCEPT !.strategies[C.h.strats[j]].status = "inactive",
                 !.h.pc = "deactPersist", !.h.i = j]

\* handleCircuitBreaker({userId}) up to its first wait
handleCircuitBreaker(C, u) ==
  LET act == {s \in StrategiesOf(C.strategies, u) : C.strategies[s].status = "active"}
  IN handlerDeactivateFrom([C EXCEPT !.h = [IdleHandler EXCEPT !.user = u,
                                                              !.strats = Ascending(act)]], 1)

\* deactivateStrategy after its persist: runningStrategies.delete, then the
\* next strategy or the orders
HandlerDeactivated ==
  /\ cbHandler.pc = "deactPersist"
  /\ LET C == CoordState(OMState)
         s == cbHandler.strats[cbHandler.i]
     IN ApplyCoord(handlerDeactivateFrom([C EXCEPT !.running = @ \ {s}], cbHandler.i + 1))
  /\ RiskUntouched
  /\ UNCHANGED <<activating, posVars, fillsDone, sched, extVars>>

\* cancelOrder after its persist: emit orderCancelled, then the next order
HandlerCancelled ==
  /\ cbHandler.pc = "cancelPersist"
  /\ ApplyCoord(handlerCancelFrom(CoordState(OMState), cbHandler.i + 1))
  /\ RiskUntouched
  /\ UNCHANGED <<activating, posVars, fillsDone, sched, extVars>>

\* activateStrategy(strategyId) up to its persist: strategy.activate().  No
\* activation is requested for a user whose breaker is being handled.
ActivateStrategyBegin ==
  \E s \in StrategyIds :
    /\ strategies[s].exists
    /\ strategies[s].status # "active"
    /\ s \notin activating
    /\ cbHandler.user # strategies[s].userId
    /\ strategies' = [strategies EXCEPT ![s].status = "active"]
    /\ activating' = activating \cup {s}
    /\ RiskUntouched
    /\ UNCHANGED <<orderVars, runningStrategies, cbHandler, cbDone, posVars, fillsDone, sched, extVars>>

\* activateStrategy after its persist: runningStrategies.add
ActivateStrategyEnd ==
  \E s \in activating :
    /\ runningStrategies' = runningStrategies \cup {s}
    /\ activating' = activating \ {s}
    /\ RiskUntouched
    /\ UNCHANGED <<orderVars, strategies, cbHandler, cbDone, posVars, fillsDone, sched, extVars>>

(***************************************************************************)
(* TradingEngine.handleStrategySignal and handleRuleTrigger                *)
(***************************************************************************)
SignalSet ==
  { [amount |-> 2, price |-> 100, orderType |-> "market"],
    [amount |-> 4, price |-> 100, orderType |-> "limit"] }

SignalPortfolios ==
  { [totalValue |-> 100000, totalExposure |-> 0, assetValue |-> 0],
    [totalValue |-> 89000, totalExposure |-> 0, assetValue |-> 0] }

RuleOrderParams ==
  { [amount |-> 2, price |-> 0, type |-> "market"],
    [amount |-> 4, price |-> 100, type |-> "limit"] }

\* whether handleStrategySignal goes on to createOrder after the risk check
signalPasses(riskCheck) == riskCheck.allowed

\* handleStrategySignal(signal), for a signal executeStrategies emitted for an
\* active strategy: risk check, then createOrder up to its persist.  A
\* triggered breaker runs handleCircuitBreaker inside the check.  Signals
\* arrive while no handleCircuitBreaker run is in progress, so that at most
\* one run exists.
HandleStrategySignal ==
  \E s \in StrategyIds, sig \in SignalSet, pf \in SignalPortfolios :
    /\ strategies[s].exists /\ strategies[s].status = "active"
    /\ cbHandler.pc = "idle"
    /\ LET u == strategies[s].userId
           tp == [amount |-> sig.amount, price |-> sig.price, marketPrice |-> sig.price,
                  expectedPrice |-> 0, executionPrice |-> 0, hasPair |-> TRUE]
           res == checkTrade(u, tp, pf)
           p == [userId |-> u, type |-> sig.orderType, amount |-> sig.amount,
                 price |-> sig.price]
           C0 == CoordState(OMState)
           C1 == IF res.triggered THEN handleCircuitBreaker(C0, u) ELSE C0
           C2 == IF signalPasses(res)
                 THEN [C1 EXCEPT !.om = createOrderStore(C1.om, p, "signal", res.allowed)]
                 ELSE C1
       IN /\ (signalPasses(res) => NextOrderId <= MaxOrders)
          /\ ApplyCheck(u, res)
          /\ ApplyCoord(C2)
    /\ UNCHANGED <<now, activating, posVars, fillsDone, sched, extVars>>

\* handleRuleTrigger(trigger) with one place_order action: createOrder(action.params)
HandleRuleTrigger ==
  \E u \in Users, rp \in RuleOrderParams :
    /\ NextOrderId <= MaxOrders
    /\ LET p == [userId |-> u, type |-> rp.type, amount |-> rp.amount, price |-> rp.price]
       IN ApplyOM(createOrderStore(OMState, p, "rule", FALSE))
    /\ RiskUntouched
    /\ UNCHANGED <<coordVars, posVars, fillsDone, sched, extVars>>

(***************************************************************************)
(* The two timer loops: StrategyManager.executeStrategies (every 30 s) and *)
(* RuleEngine.evaluateRules (every 10 s).  A pass is in progress from the  *)
(* moment it sets isProcessing to its finally block; `left` is the number  *)
(* of awaits it still has to resume from (one per running strategy, one    *)
(* per triggered rule).                                                    *)
(***************************************************************************)
MaxTicks == 3
MaxItems == 2

NoTick == [busy |-> FALSE, started |-> FALSE]

IdleLoop == [isProcessing |-> FALSE, passes |-> {}, ticks |-> 0, lastTick |-> NoTick]

\* a pass that has nothing to await runs to its finally block at once
beginPass(L, n) ==
  IF n = 0
  THEN [L EXCEPT !.isProcessing = FALSE]
  ELSE [L EXCEPT !.isProcessing = TRUE,
                 !.passes = @ \cup {[id |-> L.ticks + 1, left |-> n]}]

\* executeStrategies(marketData) up to its first await, n strategies running
executeStrategiesMutNoGuard(L, n) ==
  beginPass([L EXCEPT !.ticks = @ + 1,
                      !.lastTick = [busy |-> L.passes # {}, started |-> TRUE]], n)

executeStrategies(L, n) ==
  IF L.isProcessing
  THEN [L EXCEPT !.ticks = @ + 1, !.lastTick = [busy |-> L.passes # {}, started |-> FALSE]]
  ELSE beginPass([L EXCEPT !.ticks = @ + 1,
                           !.lastTick = [busy |-> L.passes # {}, started |-> TRUE]], n)

\* evaluateRules(marketData, portfolioData, positionsData) up to its first
\* await, n rules triggering
evaluateRules(L, n) ==
  IF L.isProcessing
  THEN [L EXCEPT !.ticks = @ + 1, !.lastTick = [busy |-> L.passes # {}, started |-> FALSE]]
  ELSE beginPass([L EXCEPT !.ticks = @ + 1,
                           !.lastTick = [busy |-> L.passes # {}, started |-> TRUE]], n)

\* a pass resumes from an await: the next item, or the finally block
resumePass(L, ps) ==
  IF ps.left > 1
  THEN [L EXCEPT !.passes = (@ \ {ps}) \cup {[ps EXCEPT !.left = @ - 1]},
                 !.lastTick = NoTick]
  ELSE [L EXCEPT !.passes = @ \ {ps}, !.isProcessing = FALSE, !.lastTick = NoTick]

SchedFrame ==
  /\ RiskUntouched
  /\ UNCHANGED <<orderVars, coordVars, posVars, fillsDone, extVars>>

\* the execution interval fires
StrategyTick ==
  \E n \in 0..MaxItems :
    /\ executionInterval
    /\ sched.strategies.ticks < MaxTicks
    /\ sched' = [sched EXCEPT !.strategies = executeStrategies(@, n)]
    /\ SchedFrame

\* strategy.execute of the pass returns
StrategyPassStep ==
  \E ps \in sched.strategies.passes :
    /\ sched' = [sched EXCEPT !.strategies = resumePass(@, ps)]
    /\ SchedFrame

\* the evaluation interval fires
RuleTick ==
  \E n \in 0..MaxItems :
    /\ sched.rules.ticks < MaxTicks
    /\ sched' = [sched EXCEPT !.rules = evaluateRules(@, n)]
    /\ SchedFrame

\* persistRule of the pass returns
RulePassStep ==
  \E ps \in sched.rules.passes :
    /\ sched' = [sched EXCEPT !.rules = resumePass(@, ps)]
    /\ SchedFrame

(***************************************************************************)
(* Position (models/position.js).  Money is in thousandths of the quote    *)
(* currency, so that the 0.1% fee of a fill is a whole number.             *)
(***************************************************************************)
PositionKeys == {"u1:kraken:BTC"}

\* new Position(params)
NewPosition ==
  [totalAmount |-> 0, availableAmount |-> 0, lockedAmount |-> 0,
   averageEntryPrice |-> 0, totalCost |-> 0, realizedPnL |-> 0, totalFees |-> 0,
   trades |-> <<>>]

\* addBuyTrade({amount, price, fee})
addBuyTrade(pos, t) ==
  LET cost == t.amount * t.price + t.fee
      newTotalCost == pos.totalCost + cost
      newTotalAmount == pos.totalAmount + t.amount
  IN [pos EXCEPT !.averageEntryPrice =
                    IF newTotalAmount > 0 THEN newTotalCost \div newTotalAmount ELSE 0,
                 !.totalAmount = newTotalAmount,
                 !.availableAmount = @ + t.amount,
                 !.totalCost = newTotalCost,
                 !.totalFees = @ + t.fee,
                 !.trades = Append(@, [type |-> "buy", id |-> t.id])]

\* addSellTrade({amount, price, fee})
addSellTrade(pos, t) ==
  LET proceeds == t.amount * t.price - t.fee
      costBasis == t.amount * pos.averageEntryPrice
  IN [pos EXCEPT !.totalAmount = @ - t.amount,
                 !.availableAmount = @ - t.amount,
                 !.totalCost = Max(0, @ - costBasis),
                 !.realizedPnL = @ + (proceeds - costBasis),
                 !.totalFees = @ + t.fee,
                 !.trades = Append(@, [type |-> "sell", id |-> t.id])]

\* lockAmount(amount): throws when amount > availableAmount
lockAmount(pos, amount) ==
  IF amount > pos.availableAmount THEN pos
  ELSE [pos EXCEPT !.availableAmount = @ - amount, !.lockedAmount = @ + amount]

\* unlockAmount(amount): throws when amount > lockedAmount
unlockAmount(pos, amount) ==
  IF amount > pos.lockedAmount THEN pos
  ELSE [pos EXCEPT !.lockedAmount = @ - amount, !.availableAmount = @ + amount]

(***************************************************************************)
(* PositionManager (services/positionManager.js).  posHeap holds every     *)
(* Position object constructed, positions maps a key to the object the Map *)
(* holds (0: none), redisPositions to what Redis stores for the key.       *)
(***************************************************************************)
NoStored == [stored |-> FALSE, data |-> NewPosition]

\* the fills handleOrderFilled passes on: amount, price and fee of the order
PosTradeSet ==
  { [side |-> "buy", amount |-> 2, price |-> 100000, fee |-> 200],
    [side |-> "sell", amount |-> 2, price |-> 100000, fee |-> 200] }

LockAmounts == {2}

\* updatePositionFromTrade after getPosition returned the object at index i:
\* apply the trade, hand the object to Redis
applyTrade(heap, redis, k, i, t) ==
  LET pos == IF t.side = "buy" THEN addBuyTrade(heap[i], t) ELSE addSellTrade(heap[i], t)
  IN [heap |-> [heap EXCEPT ![i] = pos],
      redis |-> [redis EXCEPT ![k] = [stored |-> TRUE, data |-> pos]]]

\* updatePositionFromTrade(userId, exchange, trade) up to its first wait.  A
\* key the Map has is served from memory and the call runs through; for any
\* other key getPosition waits for redisClient.get
UpdatePositionFromTrade ==
  \E k \in PositionKeys, tr \in PosTradeSet :
    /\ fillsDone < MaxFills
    /\ fillsDone' = fillsDone + 1
    /\ LET t == [side |-> tr.side, amount |-> tr.amount, price |-> tr.price,
                 fee |-> tr.fee, id |-> fillsDone + 1]
       IN IF positions[k] # 0
          THEN LET r == applyTrade(posHeap, redisPositions, k, positions[k], t)
               IN /\ posHeap' = r.heap
                  /\ redisPositions' = r.redis
                  /\ UNCHANGED <<positions, posCalls>>
          ELSE /\ posCalls' = posCalls \cup {[key |-> k, trade |-> t,
                                              got |-> redisPositions[k]]}
               /\ UNCHANGED <<posHeap, positions, redisPositions>>
    /\ RiskUntouched
    /\ UNCHANGED <<orderVars, coordVars, sched, extVars>>

\* getPosition after redisClient.get: reconstruct or construct the Position,
\* put it in the Map, and the rest of updatePositionFromTrade
GetPositionLoaded ==
  \E c \in posCalls :
    /\ LET obj == IF c.got.stored THEN c.got.data ELSE NewPosition
           heap1 == Append(posHeap, obj)
           i == Len(heap1)
           r == applyTrade(heap1, redisPositions, c.key, i, c.trade)
       IN /\ posHeap' = r.heap
          /\ redisPositions' = r.redis
          /\ positions' = [positions EXCEPT ![c.key] = i]
    /\ posCalls' = posCalls \ {c}
    /\ RiskUntouched
    /\ UNCHANGED <<orderVars, coordVars, fillsDone, sched, extVars>>

\* Position.lockAmount on the object the Map holds
LockAmount ==
  \E k \in PositionKeys, a \in LockAmounts :
    /\ positions[k] # 0
    /\ a <= posHeap[positions[k]].availableAmount
    /\ posHeap' = [posHeap EXCEPT ![positions[k]] = lockAmount(@, a)]
    /\ RiskUntouched
    /\ UNCHANGED <<positions, redisPositions, posCalls, orderVars, coordVars, fillsDone, sched, extVars>>

\* Position.unlockAmount on the object the Map holds
UnlockAmount ==
  \E k \in PositionKeys, a \in LockAmounts :
    /\ positions[k] # 0
    /\ a <= posHeap[positions[k]].lockedAmount
    /\ posHeap' = [posHeap EXCEPT ![positions[k]] = unlockAmount(@, a)]
    /\ RiskUntouched
    /\ UNCHANGED <<positions, redisPositions, posCalls, orderVars, coordVars, fillsDone, sched, extVars>>

\* the process restarts: the Map is empty again, Redis keeps what it stores
RestartPositions ==
  /\ posCalls = {}
  /\ \E k \in PositionKeys : positions[k] # 0
  /\ positions' = [k \in PositionKeys |-> 0]
  /\ RiskUntouched
  /\ UNCHANGED <<posHeap, redisPositions, posCalls, orderVars, coordVars, fillsDone, sched, extVars>>

(***************************************************************************)
(* Initial states                                                          *)
(***************************************************************************)
OrderInit ==
  /\ orders = [o \in OrderIds |-> NoOrder]
  /\ orderQueue = <<>>
  /\ processing = FALSE
  /\ creating = {}
  /\ worker = {}
  /\ openedLog = <<>>
  /\ enqueuedLog = <<>>

CoordInit ==
  /\ strategies = [s \in StrategyIds |-> NoStrategy]
  /\ runningStrategies = {}
  /\ activating = {}
  /\ cbHandler = IdleHandler
  /\ cbDone = [u \in Users |-> NotHandled]

PosInit ==
  /\ posHeap = <<>>
  /\ positions = [k \in PositionKeys |-> 0]
  /\ redisPositions = [k \in PositionKeys |-> NoStored]
  /\ posCalls = {}

SchedInit == sched = [strategies |-> IdleLoop, rules |-> IdleLoop]

(***************************************************************************)
(* TradingStrategy (strategies/baseStrategy): the status machine           *)
(***************************************************************************)
MaxSignals == 1
MaxStrategyTrades == 1
MaxExecuting == 1

TradingStrategyIds == {"s1", "s2"}
StrategyStatuses == {"inactive", "active", "paused", "error"}

\* constructor: status 'inactive', no trades, no signals, no error; the
\* config gives maxDailyTrades.  executing counts the execute() calls that
\* are waiting for generateSignal.
NewTradingStrategy ==
  [status |-> "inactive", error |-> FALSE, signals |-> 0, trades |-> 0,
   maxDailyTrades |-> 1, ran |-> FALSE, executing |-> 0]

activate(s) ==
  IF s.status = "active" THEN s
  ELSE [s EXCEPT !.status = "active", !.error = FALSE]

deactivate(s) == [s EXCEPT !.status = "inactive"]

pause(s) ==
  IF s.status # "active" THEN s ELSE [s EXCEPT !.status = "paused"]

resume(s) ==
  IF s.status # "paused" THEN s ELSE [s EXCEPT !.status = "active"]

recordTrade(s) == [s EXCEPT !.trades = @ + 1]

\* execute up to `await this.generateSignal(marketData)`
executeBegin(s) ==
  IF s.status # "active" THEN s
  ELSE IF s.trades >= s.maxDailyTrades THEN [s EXCEPT !.ran = TRUE]
  ELSE [s EXCEPT !.ran = TRUE, !.executing = @ + 1]

\* execute after generateSignal has settled: hold, a signal that
\* validateSignal accepts or refuses, or a rejection caught by the catch block
SignalOutcomes == {"hold", "signal", "invalid", "throw"}

executeEnd(s, outcome) ==
  LET t == [s EXCEPT !.executing = @ - 1] IN
  CASE outcome = "signal" -> [t EXCEPT !.signals = @ + 1]
    [] outcome = "throw"  -> [t EXCEPT !.status = "error", !.error = TRUE]
    [] OTHER              -> t

StrategyFrame ==
  /\ RiskUntouched
  /\ UNCHANGED <<orderVars, coordVars, posVars, fillsDone, sched, eventBus,
                 wsClient, executionInterval, ingestion, dataVars>>

StrategyActivate ==
  \E id \in TradingStrategyIds :
    /\ tradingStrategy[id].status # "active"
    /\ tradingStrategy' = [tradingStrategy EXCEPT ![id] = activate(@)]
    /\ StrategyFrame

StrategyDeactivate ==
  \E id \in TradingStrategyIds :
    /\ tradingStrategy[id].status # "inactive"
    /\ tradingStrategy' = [tradingStrategy EXCEPT ![id] = deactivate(@)]
    /\ StrategyFrame

StrategyPause ==
  \E id \in TradingStrategyIds :
    /\ tradingStrategy[id].status = "active"
    /\ tradingStrategy' = [tradingStrategy EXCEPT ![id] = pause(@)]
    /\ StrategyFrame

StrategyResume ==
  \E id \in TradingStrategyIds :
    /\ tradingStrategy[id].status = "paused"
    /\ tradingStrategy' = [tradingStrategy EXCEPT ![id] = resume(@)]
    /\ StrategyFrame

StrategyRecordTrade ==
  \E id \in TradingStrategyIds :
    /\ tradingStrategy[id].trades < MaxStrategyTrades
    /\ tradingStrategy' = [tradingStrategy EXCEPT ![id] = recordTrade(@)]
    /\ StrategyFrame

StrategyExecuteBegin ==
  \E id \in TradingStrategyIds :
    /\ tradingStrategy[id].status = "active"
    /\ tradingStrategy[id].executing < MaxExecuting
    /\ tradingStrategy' = [tradingStrategy EXCEPT ![id] = executeBegin(@)]
    /\ StrategyFrame

StrategyExecuteEnd ==
  \E id \in TradingStrategyIds, outcome \in SignalOutcomes :
    /\ tradingStrategy[id].executing > 0
    /\ outcome = "signal" => tradingStrategy[id].signals < MaxSignals
    /\ tradingStrategy' = [tradingStrategy EXCEPT ![id] = executeEnd(@, outcome)]
    /\ StrategyFrame

StrategyInit == tradingStrategy = [id \in TradingStrategyIds |-> NewTradingStrategy]

(***************************************************************************)
(* EventBus (utils/eventBus.js), one event name                            *)
(***************************************************************************)
MaxSubscriptions == 3
MaxPublishes == 2
maxHistorySize == 1000

SubscriptionIds == 1..MaxSubscriptions
\* what a handler does when it is called: returns (a value or a promise that
\* resolves), throws before returning, returns a promise that rejects, or
\* returns a promise that is still pending when the timeout fires
HandlerBehaviours == {"ok", "throw", "reject", "hang"}

NoSubscription == [id |-> 0, priority |-> 0, once |-> FALSE, behaviour |-> "none"]

\* handlers.sort((a, b) => b.priority - a.priority): a stable sort, higher first
RECURSIVE insertByPriority(_, _)
insertByPriority(hs, s) ==
  IF hs = <<>> THEN <<s>>
  ELSE IF Head(hs).priority >= s.priority
       THEN <<Head(hs)>> \o insertByPriority(Tail(hs), s)
       ELSE <<s>> \o hs

RECURSIVE sortByPriority(_)
sortByPriority(hs) ==
  IF hs = <<>> THEN <<>>
  ELSE insertByPriority(sortByPriority(SubSeq(hs, 1, Len(hs) - 1)), hs[Len(hs)])

\* constructor; created are the subscriptions made so far (by id), publishes
\* the publish calls begun so far, in order, and delivered, succeeded and
\* failures record what the handlers saw
NewEventBus ==
  [subscribers |-> <<>>, subscribed |-> 0, created |-> <<>>,
   metrics |-> [eventsPublished |-> 0, eventsHandled |-> 0, errors |-> 0],
   eventHistory |-> <<>>,
   publishes |-> <<>>,
   delivered |-> [s \in SubscriptionIds |-> <<>>],
   succeeded |-> [s \in SubscriptionIds |-> 0],
   failures |-> 0]

subscribe(b, priority, once, behaviour) ==
  LET s == [id |-> b.subscribed + 1, priority |-> priority, once |-> once,
            behaviour |-> behaviour]
  IN [b EXCEPT !.subscribed = @ + 1,
               !.created = Append(@, s),
               !.subscribers = sortByPriority(Append(@, s))]

unsubscribe(b, subscriptionId) ==
  [b EXCEPT !.subscribers = SelectSeq(@, LAMBDA s : s.id # subscriptionId)]

addToHistory(history, p) ==
  LET h == Append(history, p)
  IN IF Len(h) > maxHistorySize THEN Tail(h) ELSE h

\* a publish call at its start; subscribedBefore is the number of subscribe
\* calls made before it (subscription ids count the subscribe calls)
NewPublish(async, subscribedBefore) ==
  [async |-> async, idx |-> 1, awaiting |-> NoSubscription, toRemove |-> {},
   invoked |-> <<>>, done |-> FALSE, subscribedBefore |-> subscribedBefore]

RECURSIVE removeAll(_, _)
removeAll(b, ids) ==
  IF ids = {} THEN b
  ELSE LET id == CHOOSE i \in ids : TRUE
       IN removeAll(unsubscribe(b, id), ids \ {id})

\* the outcome of a handler call that has returned, as publish sees it
handled(b, p, sub) ==
  [b EXCEPT !.metrics.eventsHandled = @ + 1,
            !.succeeded[sub.id] = @ + 1,
            !.publishes[p].toRemove = IF sub.once THEN @ \cup {sub.id} ELSE @]

caught(b) == [b EXCEPT !.metrics.errors = @ + 1, !.failures = @ + 1]

\* the for-loop of publish p from its iterator's index, up to the next await
\* or to the end of publish
RECURSIVE dispatch(_, _)
dispatch(b, p) ==
  LET pub == b.publishes[p] IN
  IF pub.idx > Len(b.subscribers)
  THEN [removeAll(b, pub.toRemove) EXCEPT !.publishes[p].done = TRUE]
  ELSE
    LET sub == b.subscribers[pub.idx]
        called == [b EXCEPT !.publishes[p].idx = @ + 1,
                            !.publishes[p].invoked = Append(@, sub.id),
                            !.delivered[sub.id] = Append(@, p)]
    IN IF sub.behaviour = "throw" THEN dispatch(caught(called), p)
       ELSE IF pub.async
            THEN [called EXCEPT !.publishes[p].awaiting = sub]
            ELSE \* the returned promise is dropped: a rejection is not seen
                 LET seen == handled(called, p, sub)
                 IN dispatch(IF sub.behaviour = "reject"
                             THEN [seen EXCEPT !.failures = @ + 1]
                             ELSE seen, p)

\* publish up to its first await (or, with async false, to its end)
publish(b, async) ==
  LET p == Len(b.publishes) + 1
      begun == [b EXCEPT !.metrics.eventsPublished = @ + 1,
                         !.eventHistory = addToHistory(@, p),
                         !.publishes = Append(@, NewPublish(async, b.subscribed))]
  IN dispatch(begun, p)

\* publish p after the Promise.race it awaits has settled
resumePublish(b, p) ==
  LET sub == b.publishes[p].awaiting
      woken == [b EXCEPT !.publishes[p].awaiting = NoSubscription]
  IN dispatch(IF sub.behaviour = "ok" THEN handled(woken, p, sub)
              ELSE caught(woken), p)

BusFrame ==
  /\ RiskUntouched
  /\ UNCHANGED <<orderVars, coordVars, posVars, fillsDone, sched, tradingStrategy,
                 wsClient, executionInterval, ingestion, dataVars>>

\* the subscribe calls tried: both priorities, once and lasting handlers,
\* and every behaviour
SubscribeOptions ==
  {[priority |-> 1, once |-> FALSE, behaviour |-> "ok"],
   [priority |-> 0, once |-> FALSE, behaviour |-> "ok"],
   [priority |-> 0, once |-> TRUE,  behaviour |-> "ok"],
   [priority |-> 0, once |-> TRUE,  behaviour |-> "reject"],
   [priority |-> 1, once |-> FALSE, behaviour |-> "throw"],
   [priority |-> 0, once |-> FALSE, behaviour |-> "reject"],
   [priority |-> 0, once |-> FALSE, behaviour |-> "hang"]}

Subscribe ==
  \E o \in SubscribeOptions :
    /\ eventBus.subscribed < MaxSubscriptions
    /\ eventBus' = subscribe(eventBus, o.priority, o.once, o.behaviour)
    /\ BusFrame

Unsubscribe ==
  \E id \in SubscriptionIds :
    /\ \E i \in 1..Len(eventBus.subscribers) : eventBus.subscribers[i].id = id
    /\ eventBus' = unsubscribe(eventBus, id)
    /\ BusFrame

Publish ==
  \E async \in BOOLEAN :
    /\ Len(eventBus.publishes) < MaxPublishes
    /\ eventBus' = publish(eventBus, async)
    /\ BusFrame

ResumePublish ==
  \E p \in 1..Len(eventBus.publishes) :
    /\ eventBus.publishes[p].awaiting # NoSubscription
    /\ eventBus' = resumePublish(eventBus, p)
    /\ BusFrame

BusInit == eventBus = NewEventBus

(***************************************************************************)
(* MarketDataWebSocket (one venue client) and its MarketDataAggregator     *)
(***************************************************************************)
MaxSockets == 4
MaxWatchdogs == 1
maxReconnectAttempts == 2
reconnectDelay == 1000

SocketIds == 1..MaxSockets
SubscriptionKeys == {"ticker:BTC/USD", "trade:BTC/USD"}

\* a socket made by new WebSocket(wsUrl): its state and the subscribe
\* messages sent on it
NoSocket == [state |-> "none", sent |-> {}]

NoClose == [exhausted |-> FALSE, emitted |-> FALSE, scheduled |-> FALSE]

\* constructor.  sockets are the sockets created so far, reconnecting the
\* reconnect() calls waiting for their delay, leakedTimers the heartbeat
\* intervals no handle refers to any more (they keep firing); watchdogs counts
\* the force-terminations by the heartbeat; inExchanges says whether the
\* aggregator holds the client; sinceOpen, lastClose, terminalEvents,
\* disconnected and shutdown record what has happened.
NewWebSocketClient ==
  [ws |-> 0, isConnected |-> FALSE, subscriptions |-> {},
   reconnectAttempts |-> 0, heartbeatTimer |-> FALSE, leakedTimers |-> 0,
   sockets |-> [s \in SocketIds |-> NoSocket], created |-> 0,
   reconnecting |-> <<>>, inExchanges |-> FALSE,
   sinceOpen |-> 0, lastClose |-> NoClose, terminalEvents |-> 0,
   disconnected |-> FALSE, shutdown |-> FALSE, watchdogs |-> 0]

RemoveAt(seq, i) == SubSeq(seq, 1, i - 1) \o SubSeq(seq, i + 1, Len(seq))

connect(c) ==
  LET s == c.created + 1
  IN [c EXCEPT !.created = s, !.ws = s, !.sockets[s].state = "connecting"]

startHeartbeat(c) ==
  [c EXCEPT !.leakedTimers = IF c.heartbeatTimer THEN @ + 1 ELSE @,
            !.heartbeatTimer = TRUE]

stopHeartbeat(c) == [c EXCEPT !.heartbeatTimer = FALSE]

\* subscribe(channel, pair): a key already in the map returns at once
wsSubscribe(c, key) ==
  IF key \in c.subscriptions THEN c
  ELSE LET sent == IF c.isConnected
                   THEN [c EXCEPT !.sockets[c.ws].sent = @ \cup {key}]
                   ELSE c
       IN [sent EXCEPT !.subscriptions = @ \cup {key}]

wsUnsubscribe(c, key) ==
  IF key \notin c.subscriptions THEN c
  ELSE [c EXCEPT !.subscriptions = @ \ {key}]

\* for (const [key, {channel, pair}] of this.subscriptions) this.subscribe(channel, pair)
RECURSIVE resubscribeOver(_, _)
resubscribeOver(c, keys) ==
  IF keys = {} THEN c
  ELSE LET key == CHOOSE k \in keys : TRUE
       IN resubscribeOver(wsSubscribe(c, key), keys \ {key})

resubscribeAll(c) == resubscribeOver(c, c.subscriptions)

handleOpen(c) ==
  LET opened == [c EXCEPT !.isConnected = TRUE, !.reconnectAttempts = 0,
                          !.sinceOpen = 0]
  IN resubscribeAll(startHeartbeat(opened))

\* reconnect() up to its await of the delay
reconnect(c) ==
  LET n == c.reconnectAttempts + 1
  IN [c EXCEPT !.reconnectAttempts = n,
               !.sinceOpen = @ + 1,
               !.reconnecting =
                  Append(@, [attempt |-> n, delay |-> reconnectDelay * 2^(n - 1)])]

\* lastClose records what this close found and did: whether the attempts
\* were exhausted, whether 'maxReconnectReached' was emitted and whether a
\* reconnect was scheduled
closeRecord(before, after) ==
  [exhausted |-> before.sinceOpen >= maxReconnectAttempts,
   emitted   |-> after.terminalEvents > before.terminalEvents,
   scheduled |-> Len(after.reconnecting) > Len(before.reconnecting)]

handleCloseMutLE(c) ==
  LET closed == stopHeartbeat([c EXCEPT !.isConnected = FALSE])
      after == IF closed.reconnectAttempts <= maxReconnectAttempts
               THEN reconnect(closed)
               ELSE [closed EXCEPT !.terminalEvents = @ + 1]
  IN [after EXCEPT !.lastClose = closeRecord(c, after)]

handleClose(c) ==
  LET closed == stopHeartbeat([c EXCEPT !.isConnected = FALSE])
      after == IF closed.reconnectAttempts < maxReconnectAttempts
               THEN reconnect(closed)
               ELSE [closed EXCEPT !.terminalEvents = @ + 1]
  IN [after EXCEPT !.lastClose = closeRecord(c, after)]

\* ws.terminate(): the socket's 'close' event follows
terminate(c, s) ==
  IF c.sockets[s].state \in {"connecting", "open"}
  THEN [c EXCEPT !.sockets[s].state = "closing"]
  ELSE c

disconnect(c) ==
  LET stopped == stopHeartbeat(c)
      gone == IF stopped.ws # 0
              THEN [terminate(stopped, stopped.ws) EXCEPT !.ws = 0]
              ELSE stopped
  IN [gone EXCEPT !.isConnected = FALSE, !.subscriptions = {},
                  !.disconnected = TRUE]

\* MarketDataAggregator.shutdown: disconnect the clients it holds
shutdown(c) ==
  LET d == IF c.inExchanges THEN disconnect(c) ELSE c
  IN [d EXCEPT !.inExchanges = FALSE, !.shutdown = TRUE]

\* the heartbeat interval's callback when no message has arrived for more
\* than 2 * heartbeatInterval: ws.terminate(), then reconnect()
heartbeatStale(c) ==
  reconnect(terminate([c EXCEPT !.watchdogs = @ + 1], c.ws))

WsFrame ==
  /\ RiskUntouched
  /\ UNCHANGED <<orderVars, coordVars, posVars, fillsDone, sched, tradingStrategy,
                 eventBus, executionInterval, ingestion, dataVars>>

\* initializeExchanges: new MarketDataWebSocket, await ws.connect()
InitializeExchanges ==
  /\ wsClient.created = 0
  /\ ~wsClient.shutdown
  /\ wsClient' = connect(wsClient)
  /\ WsFrame

\* the socket's 'open' event; the first socket's open also resolves the
\* aggregator's await, which then stores the client
SocketOpen ==
  \E s \in SocketIds :
    /\ wsClient.sockets[s].state = "connecting"
    /\ LET c == handleOpen([wsClient EXCEPT !.sockets[s].state = "open"])
       IN wsClient' = IF s = 1 THEN [c EXCEPT !.inExchanges = TRUE] ELSE c
    /\ WsFrame

\* the socket's 'close' event: a failed handshake ('error' first), a close
\* by the venue, or the close that follows terminate()
SocketClose ==
  \E s \in SocketIds :
    /\ wsClient.sockets[s].state \in {"connecting", "open", "closing"}
    /\ wsClient' = handleClose([wsClient EXCEPT !.sockets[s].state = "closed"])
    /\ WsFrame

\* the delay of a reconnect() call is over: await this.connect()
ReconnectTimer ==
  \E i \in 1..Len(wsClient.reconnecting) :
    /\ wsClient.created < MaxSockets
    /\ wsClient' = connect([wsClient EXCEPT !.reconnecting = RemoveAt(@, i)])
    /\ WsFrame

WsSubscribe ==
  \E key \in SubscriptionKeys :
    /\ wsClient.inExchanges
    /\ key \notin wsClient.subscriptions
    /\ wsClient' = wsSubscribe(wsClient, key)
    /\ WsFrame

WsUnsubscribe ==
  \E key \in SubscriptionKeys :
    /\ wsClient.inExchanges
    /\ key \in wsClient.subscriptions
    /\ wsClient' = wsUnsubscribe(wsClient, key)
    /\ WsFrame

\* a heartbeat interval fires (the one heartbeatTimer refers to, or one no
\* handle refers to any more) and finds the connection stale
HeartbeatTimer ==
  /\ wsClient.heartbeatTimer \/ wsClient.leakedTimers > 0
  /\ wsClient.isConnected
  /\ wsClient.watchdogs < MaxWatchdogs
  /\ wsClient' = heartbeatStale(wsClient)
  /\ WsFrame

AggregatorShutdown ==
  /\ ~wsClient.shutdown
  /\ wsClient' = shutdown(wsClient)
  /\ WsFrame

\* StrategyManager.shutdown: stopExecutionLoop
StopExecutionLoop ==
  /\ executionInterval
  /\ executionInterval' = FALSE
  /\ RiskUntouched
  /\ UNCHANGED <<orderVars, coordVars, posVars, fillsDone, sched, tradingStrategy,
                 eventBus, wsClient, ingestion, dataVars>>

WsInit == wsClient = NewWebSocketClient /\ executionInterval = TRUE

(***************************************************************************)
(* HistoricalDataIngestor.ingest: one ingestion job and its job row        *)
(***************************************************************************)
MaxDate == 3
MaxChunkSize == 2
maxRetries == 3

\* the timeframes ingest is called with, and times counted in minutes
Timeframes == {"1m", "2m"}
timeframeAmount == [t \in Timeframes |-> IF t = "1m" THEN 1 ELSE 2]

\* parseTimeframe: amount * units[unit], in minutes (units.m is one minute)
parseTimeframe(timeframe) == timeframeAmount[timeframe] * 1

\* ingest before createJob.  row is the ingestionJob row in the database;
\* pc is the await ingest stands at; timeframe, startDate, endDate and
\* priority are the arguments of the call; currentDate is the loop's position
\* in the range; chunk holds the valid candles of the chunk being stored;
\* chunksStarted, chunksStored, cancelRecorded and startedAtCancel record
\* what has happened.
NewIngestion ==
  [row |-> [status |-> "none", candlesFetched |-> 0, candlesStored |-> 0],
   pc |-> "idle", timeframe |-> "1m", startDate |-> 0, endDate |-> 0,
   priority |-> 1, currentDate |-> 0, attempt |-> 0, chunk |-> <<>>,
   totalFetched |-> 0, totalStored |-> 0, result |-> "none",
   chunksStarted |-> 0, chunksStored |-> 0,
   cancelRecorded |-> FALSE, startedAtCancel |-> 0]

\* createJob: the row is created PENDING; currentDate = new Date(startDate)
createJob(j, timeframe, startDate, endDate, priority) ==
  [j EXCEPT !.row.status = "PENDING", !.pc = "created",
            !.timeframe = timeframe, !.startDate = startDate,
            !.endDate = endDate, !.priority = priority,
            !.currentDate = startDate]

updateJobStatus(j, status) == [j EXCEPT !.row.status = status]

updateJobProgress(j) ==
  [j EXCEPT !.row.candlesFetched = j.totalFetched,
            !.row.candlesStored = j.totalStored]

\* the top of the while loop: the range test and the cancellation check
checkJob(j) ==
  IF ~(j.currentDate < j.endDate) THEN [j EXCEPT !.pc = "completing"]
  ELSE IF j.row.status = "CANCELLED"
       THEN [j EXCEPT !.pc = "done", !.result = "cancelled"]
       ELSE [j EXCEPT !.pc = "fetch", !.attempt = 1,
                      !.chunksStarted = @ + 1]

\* what exchange.fetchOHLCV(symbol, timeframe, since, limit) resolves to: at
\* most limit candles in ascending order, none earlier than since; valid
\* tells whether the candle passes validateCandles
FetchedCandles(since) ==
  {c \in UNION {[1..n -> [timestamp : since..(since + MaxChunkSize),
                          valid : BOOLEAN]] : n \in 0..MaxChunkSize} :
     \A i \in 1..(Len(c) - 1) : c[i].timestamp < c[i + 1].timestamp}

\* one exchange.fetchOHLCV of fetchChunk settles: candles or an error
FetchOutcomes(since) ==
  {[kind |-> "data", candles |-> c] : c \in FetchedCandles(since)}
    \cup {[kind |-> "error", candles |-> <<>>]}

validateCandles(candles) == SelectSeq(candles, LAMBDA c : c.valid)

fetchChunk(j, o) ==
  IF o.kind = "error"
  THEN IF j.attempt < maxRetries
       THEN [j EXCEPT !.attempt = @ + 1]
       ELSE [j EXCEPT !.pc = "failing"]
  ELSE IF Len(o.candles) = 0 \/ Len(validateCandles(o.candles)) = 0
       THEN [j EXCEPT !.pc = "completing"]
       ELSE [j EXCEPT !.pc = "store", !.chunk = validateCandles(o.candles),
                      !.totalFetched = @ + Len(o.candles)]

\* parquetWriter.appendCandles of the valid chunk
appendCandles(j) ==
  [j EXCEPT !.pc = "progress", !.totalStored = @ + Len(j.chunk),
            !.chunksStored = @ + 1]

\* the move to the next chunk without the timeframe added
advanceMutNoTimeframe(j) ==
  [updateJobProgress(j) EXCEPT
     !.pc = "check",
     !.currentDate = j.chunk[Len(j.chunk)].timestamp,
     !.chunk = <<>>]

\* updateJobProgress, updateDataSource, the move to the next chunk, sleep
advance(j) ==
  [updateJobProgress(j) EXCEPT
     !.pc = "check",
     !.currentDate = j.chunk[Len(j.chunk)].timestamp
                       + parseTimeframe(j.timeframe),
     !.chunk = <<>>]

IngestFrame ==
  /\ RiskUntouched
  /\ UNCHANGED <<orderVars, coordVars, posVars, fillsDone, sched, tradingStrategy,
                 eventBus, wsClient, executionInterval, dataVars>>

IngestBegin ==
  \E timeframe \in Timeframes, startDate \in 0..1, endDate \in 0..MaxDate :
    /\ ingestion.pc = "idle"
    /\ ingestion' = createJob(ingestion, timeframe, startDate, endDate, 1)
    /\ IngestFrame

IngestRunning ==
  /\ ingestion.pc = "created"
  /\ ingestion' = [updateJobStatus(ingestion, "RUNNING") EXCEPT !.pc = "check"]
  /\ IngestFrame

IngestCheck ==
  /\ ingestion.pc = "check"
  /\ ingestion' = checkJob(ingestion)
  /\ IngestFrame

IngestFetch ==
  \E o \in FetchOutcomes(ingestion.currentDate) :
    /\ ingestion.pc = "fetch"
    /\ ingestion' = fetchChunk(ingestion, o)
    /\ IngestFrame

IngestStore ==
  /\ ingestion.pc = "store"
  /\ ingestion' = appendCandles(ingestion)
  /\ IngestFrame

IngestAdvance ==
  /\ ingestion.pc = "progress"
  /\ ingestion' = advance(ingestion)
  /\ IngestFrame

IngestComplete ==
  /\ ingestion.pc = "completing"
  /\ ingestion' = [updateJobStatus(ingestion, "COMPLETED") EXCEPT
                     !.row.candlesFetched = ingestion.totalFetched,
                     !.row.candlesStored = ingestion.totalStored,
                     !.pc = "done", !.result = "completed"]
  /\ IngestFrame

IngestFail ==
  /\ ingestion.pc = "failing"
  /\ ingestion' = [updateJobStatus(ingestion, "FAILED") EXCEPT
                     !.pc = "done", !.result = "failed"]
  /\ IngestFrame

\* another client of the database records the cancellation of the job
CancelJob ==
  /\ ingestion.row.status \in {"PENDING", "RUNNING"}
  /\ ingestion' = [ingestion EXCEPT !.row.status = "CANCELLED",
                                    !.cancelRecorded = TRUE,
                                    !.startedAtCancel = ingestion.chunksStarted]
  /\ IngestFrame

IngestInit == ingestion = NewIngestion

(***************************************************************************)
(* ParquetWriter.appendCandles: one columnar file (one pair, timeframe and  *)
(* month) and the calls that read, merge and rewrite it                    *)
(***************************************************************************)
MaxAppends == 3

\* the appendCandles calls that can be in progress at once
Writers == {"w1", "w2"}
CandleTimes == 1..MaxDate

\* toTimestampString and parseTimestamp: the file stores ISO 8601 strings
toTimestampString(timestamp) == <<"iso", timestamp>>
parseTimestamp(timestampStr) == timestampStr[2]

IdleAppend == [pc |-> "idle", candles |-> <<>>, existingCandles |-> <<>>]

\* constructor: no file yet.  file holds the rows of the file, calls the
\* appendCandles calls in progress, appends counts the calls made and
\* returned the timestamps of the batches whose call has returned
NewParquet ==
  [file |-> <<>>, calls |-> [w \in Writers |-> IdleAppend], appends |-> 0,
   returned |-> {}]

\* the batches appendCandles is called with: candles at ascending times
\* whose close is the number of the call
Batches ==
  {b \in UNION {[1..n -> CandleTimes] : n \in 1..2} :
     \A i \in 1..(Len(b) - 1) : b[i] < b[i + 1]}

\* appendCandles up to `await fs.access(filePath)`
appendBegin(p, w, times) ==
  [p EXCEPT !.appends = @ + 1,
            !.calls[w] = [pc |-> "reading",
                          candles |-> [i \in 1..Len(times) |->
                                         [timestamp |-> times[i],
                                          close |-> p.appends + 1]],
                          existingCandles |-> <<>>]]

\* readCandles: the rows of the file with their timestamps parsed (a file
\* that does not exist gives no candles)
readCandles(file) ==
  [i \in 1..Len(file) |->
     [timestamp |-> parseTimestamp(file[i].timestamp), close |-> file[i].close]]

appendRead(p, w) ==
  [p EXCEPT !.calls[w].existingCandles = readCandles(p.file),
            !.calls[w].pc = "writing"]

\* merged.sort((a, b) => a.timestamp - b.timestamp): a stable sort
RECURSIVE insertByTimestamp(_, _)
insertByTimestamp(cs, c) ==
  IF cs = <<>> THEN <<c>>
  ELSE IF Head(cs).timestamp <= c.timestamp
       THEN <<Head(cs)>> \o insertByTimestamp(Tail(cs), c)
       ELSE <<c>> \o cs

RECURSIVE sortByTimestamp(_)
sortByTimestamp(cs) ==
  IF cs = <<>> THEN <<>>
  ELSE insertByTimestamp(sortByTimestamp(SubSeq(cs, 1, Len(cs) - 1)), cs[Len(cs)])

\* the loop over merged with the seen set: the first candle of each timestamp
RECURSIVE uniqueCandles(_, _)
uniqueCandles(cs, seen) ==
  IF cs = <<>> THEN <<>>
  ELSE IF Head(cs).timestamp \in seen
       THEN uniqueCandles(Tail(cs), seen)
       ELSE <<Head(cs)>> \o uniqueCandles(Tail(cs), seen \cup {Head(cs).timestamp})

mergeCandles(existingCandles, candles) ==
  uniqueCandles(sortByTimestamp(existingCandles \o candles), {})

\* the rows writer.appendRow writes for the candles
writeRows(candles) ==
  [i \in 1..Len(candles) |->
     [timestamp |-> toTimestampString(candles[i].timestamp),
      close |-> candles[i].close]]

\* appendCandles from the merge to its return: the file is rewritten
appendRewrite(p, w) ==
  LET c == p.calls[w]
  IN [p EXCEPT !.file = writeRows(mergeCandles(c.existingCandles, c.candles)),
               !.calls[w] = IdleAppend,
               !.returned = @ \cup {c.candles[i].timestamp : i \in 1..Len(c.candles)}]

ParquetFrame ==
  /\ RiskUntouched
  /\ UNCHANGED <<orderVars, coordVars, posVars, fillsDone, sched, tradingStrategy,
                 eventBus, wsClient, executionInterval, ingestion, gapRepair,
                 fillFlow,
                 execPass,
                 rejections,
                 backtest,
                 gridStrategy,
                 strategyManager,
                 dailyFlow>>

AppendBegin ==
  \E w \in Writers, times \in Batches :
    /\ parquet.calls[w].pc = "idle"
    /\ parquet.appends < MaxAppends
    /\ parquet' = appendBegin(parquet, w, times)
    /\ ParquetFrame

AppendRead ==
  \E w \in Writers :
    /\ parquet.calls[w].pc = "reading"
    /\ parquet' = appendRead(parquet, w)
    /\ ParquetFrame

AppendRewrite ==
  \E w \in Writers :
    /\ parquet.calls[w].pc = "writing"
    /\ parquet' = appendRewrite(parquet, w)
    /\ ParquetFrame

ParquetInit == parquet = NewParquet

ParquetNext ==
  \/ AppendBegin
  \/ AppendRead
  \/ AppendRewrite

(***************************************************************************)
(* HistoricalDataIngestor.detectGaps and repairGaps over the stored candles *)
(* of one pair and timeframe                                               *)
(***************************************************************************)
MaxGapRows == 2

\* the times of the candles the exchange has
GapTimes == 0..(MaxDate + 1)

\* constructor and an empty store.  stored are the timestamps of the candles
\* in the columnar files, gaps the dataGap rows, jobs the ingest calls made by
\* repairGaps, detected what the last detectGaps returned; phase tells how
\* far the sequence detectGaps, repairGaps, detectGaps has come
NewGapRepair ==
  [timeframe |-> "1m", stored |-> {}, gaps |-> <<>>, jobs |-> <<>>,
   detected |-> <<>>, phase |-> "none"]

RECURSIVE firstTimes(_, _)
firstTimes(S, n) ==
  IF n = 0 \/ S = {} THEN <<>>
  ELSE LET t == CHOOSE x \in S : \A y \in S : x <= y
       IN <<t>> \o firstTimes(S \ {t}, n - 1)

\* exchange.fetchOHLCV(symbol, timeframe, since, chunkSize) of an exchange
\* that has every candle: the first chunkSize candles from since on
exchangeCandles(since, timeframe) ==
  LET times == firstTimes({t \in GapTimes : t >= since
                                             /\ t % parseTimeframe(timeframe) = 0},
                          MaxChunkSize)
  IN [i \in 1..Len(times) |-> [timestamp |-> times[i], valid |-> TRUE]]

\* the chunk loop of ingest run to its end against that exchange, the chunks
\* appended to the stored candles
RECURSIVE runIngest(_, _)
runIngest(j, stored) ==
  LET c == checkJob(j)
      f == fetchChunk(c, [kind |-> "data",
                          candles |-> exchangeCandles(c.currentDate, c.timeframe)])
  IN IF c.pc # "fetch" THEN [job |-> c, stored |-> stored]
     ELSE IF f.pc # "store" THEN [job |-> f, stored |-> stored]
     ELSE runIngest(advance(appendCandles(f)),
                    stored \cup {f.chunk[i].timestamp : i \in 1..Len(f.chunk)})

\* ingest(pair, timeframe, startDate, endDate, priority) as a whole
ingest(stored, timeframe, startDate, endDate, priority) ==
  runIngest([updateJobStatus(createJob(NewIngestion, timeframe, startDate,
                                       endDate, priority), "RUNNING")
               EXCEPT !.pc = "check"],
            stored)

\* the stored candles in ascending order (readRange)
readRange(stored) == firstTimes(stored, Cardinality(stored))

\* the loop of detectGaps over consecutive candles
RECURSIVE gapsBetween(_, _, _)
gapsBetween(candles, i, timeframeMs) ==
  IF i > Len(candles) THEN <<>>
  ELSE LET prev == candles[i - 1]
           curr == candles[i]
           rest == gapsBetween(candles, i + 1, timeframeMs)
       IN IF 2 * (curr - prev) > 3 * timeframeMs
          THEN <<[gapStart |-> prev + timeframeMs, gapEnd |-> curr - timeframeMs,
                  reason |-> "missing_candles", isRepaired |-> FALSE]>> \o rest
          ELSE rest

\* detectGaps: without a data source the whole range is reported and nothing
\* is recorded; otherwise the gaps found are recorded as dataGap rows
detectGaps(g) ==
  IF g.stored = {}
  THEN [g EXCEPT !.detected = <<[gapStart |-> 0, gapEnd |-> MaxDate + 1,
                                 reason |-> "no_data", isRepaired |-> FALSE]>>,
                 !.phase = "none"]
  ELSE LET gaps == gapsBetween(readRange(g.stored), 2, parseTimeframe(g.timeframe))
       IN [g EXCEPT !.detected = gaps,
                    !.gaps = @ \o gaps,
                    !.phase = IF g.phase = "repaired" THEN "redetected"
                              ELSE IF gaps # <<>> THEN "detected" ELSE "none"]

\* the loop of repairGaps from dataGap row i on
RECURSIVE repairFrom(_, _)
repairFrom(g, i) ==
  IF i > Len(g.gaps) THEN g
  ELSE IF g.gaps[i].isRepaired THEN repairFrom(g, i + 1)
  ELSE LET gap == g.gaps[i]
           r == ingest(g.stored, g.timeframe, gap.gapStart, gap.gapEnd, 2)
       IN repairFrom([g EXCEPT !.stored = r.stored,
                               !.jobs = Append(@, [startDate |-> gap.gapStart,
                                                   endDate |-> gap.gapEnd,
                                                   priority |-> 2,
                                                   status |-> r.job.pc]),
                               !.gaps[i].isRepaired = TRUE],
                     i + 1)

\* repairGaps with every ingest completing
repairGaps(g) ==
  [repairFrom(g, 1) EXCEPT !.phase = IF g.phase = "detected" THEN "repaired"
                                     ELSE "none"]

GapFrame ==
  /\ RiskUntouched
  /\ UNCHANGED <<orderVars, coordVars, posVars, fillsDone, sched, tradingStrategy,
                 eventBus, wsClient, executionInterval, ingestion, parquet,
                 fillFlow,
                 execPass,
                 rejections,
                 backtest,
                 gridStrategy,
                 strategyManager,
                 dailyFlow>>

\* an earlier ingest has stored candles, the exchange having had an outage
\* for the others
GapStore ==
  \E timeframe \in Timeframes, times \in SUBSET GapTimes :
    /\ gapRepair.stored = {}
    /\ times # {}
    /\ \A t \in times : t % parseTimeframe(timeframe) = 0
    /\ gapRepair' = [gapRepair EXCEPT !.timeframe = timeframe, !.stored = times]
    /\ GapFrame

GapDetect ==
  /\ Len(gapRepair.gaps) < MaxGapRows
  /\ gapRepair' = detectGaps(gapRepair)
  /\ GapFrame

GapRepair ==
  /\ Len(gapRepair.jobs) < MaxGapRows
  /\ gapRepair' = repairGaps(gapRepair)
  /\ GapFrame

GapInit == gapRepair = NewGapRepair

GapNext ==
  \/ GapStore
  \/ GapDetect
  \/ GapRepair

(***************************************************************************)
(* TradingEngine.handleOrderFilled: a fill of the order manager delivered   *)
(* as trading:orderFilled and applied to the position                      *)
(***************************************************************************)
\* no fill yet.  position is the user's Position; realized is the sum of the
\* realized P&L of the fills delivered and losses the number of losing fills
\* since the last winning one, as Position.addSellTrade computed them
NewFillFlow == [position |-> NewPosition, realized |-> 0, losses |-> 0]

\* the orders simulateOrderExecution fills (fee 0.1% of the value)
FilledOrders ==
  { [side |-> "buy", filledAmount |-> 2, averagePrice |-> 100000, fee |-> 200],
    [side |-> "sell", filledAmount |-> 2, averagePrice |-> 90000, fee |-> 180],
    [side |-> "sell", filledAmount |-> 2, averagePrice |-> 110000, fee |-> 220] }

\* the P&L Position.addSellTrade returns for the trade (a buy realizes none)
fillPnL(pos, side, t) ==
  IF side = "sell"
  THEN (t.amount * t.price - t.fee) - t.amount * pos.averageEntryPrice
  ELSE 0

\* handleOrderFilled past its publish: updatePositionFromTrade
positionAfterFill(f, order, id) ==
  LET t == [amount |-> order.filledAmount, price |-> order.averagePrice,
            fee |-> order.fee, id |-> id]
      pnl == fillPnL(f.position, order.side, t)
  IN [f EXCEPT !.position = IF order.side = "buy" THEN addBuyTrade(@, t)
                            ELSE addSellTrade(@, t),
               !.realized = @ + pnl,
               !.losses = IF pnl < 0 THEN @ + 1 ELSE IF pnl > 0 THEN 0 ELSE @]

\* handleOrderFilled(order) for an order filled by simulateOrderExecution:
\* eventBus.publish('trading:orderFilled', {order, userId}) runs the risk
\* manager's handleTrade on the order (an Order has no realizedPnL field),
\* then the position is updated
HandleOrderFilled ==
  \E u \in Users, order \in FilledOrders :
    /\ fillsDone < MaxFills
    /\ order.side = "sell" => fillFlow.position.totalAmount >= order.filledAmount
    /\ fillsDone' = fillsDone + 1
    /\ ApplyRisk(handleTrade(RiskState, u,
                             [filledAmount |-> order.filledAmount,
                              averagePrice |-> order.averagePrice,
                              realizedPnL |-> 0]))
    /\ lastCheck' = NoCheck
    /\ fillFlow' = positionAfterFill(fillFlow, order, fillsDone + 1)
    /\ UNCHANGED <<now, orderVars, coordVars, posVars, sched, tradingStrategy,
                   eventBus, wsClient, executionInterval, ingestion, parquet,
                   gapRepair,
                 execPass,
                 rejections,
                 backtest,
                 gridStrategy,
                 strategyManager,
                 dailyFlow>>

FillInit == fillFlow = NewFillFlow

FillNext ==
  \/ HandleOrderFilled
  \/ RiskCheckTrade

(***************************************************************************)
(* StrategyManager.executeStrategies over the TradingStrategy objects: one  *)
(* pass visits the running strategies in order and executes the active ones *)
(***************************************************************************)
\* constructor: isProcessing false.  queue holds the strategies the pass has
\* still to visit (its head is the one in hand), pc the await the pass stands
\* at; ticks and passes count the calls and the passes begun; executed and
\* skipped tell what the pass in progress (or the last one) did, failed the
\* strategies whose execute has raised an error in some pass
NewExecPass ==
  [isProcessing |-> FALSE, queue |-> <<>>, pc |-> "idle", ticks |-> 0,
   passes |-> 0, executed |-> {}, skipped |-> {}, failed |-> {}]

\* the running strategies in the order of the runningStrategies set
RunningOrder == <<"s1", "s2">>

\* the for loop steps to the next strategy without leaving the finally block
nextStrategyMutAbortOnError(p, outcome) ==
  IF outcome = "throw" THEN [p EXCEPT !.queue = <<>>, !.pc = "idle"]
  ELSE IF Len(p.queue) > 1
       THEN [p EXCEPT !.queue = Tail(@), !.pc = "get"]
       ELSE [p EXCEPT !.queue = <<>>, !.pc = "idle", !.isProcessing = FALSE]

\* the for loop steps to the next strategy, or the finally block ends the
\* pass; outcome is how the execute of the strategy in hand ended
nextStrategy(p, outcome) ==
  IF Len(p.queue) > 1
  THEN [p EXCEPT !.queue = Tail(@), !.pc = "get"]
  ELSE [p EXCEPT !.queue = <<>>, !.pc = "idle", !.isProcessing = FALSE]

\* executeStrategies up to its first await
beginExecutePass(p) ==
  IF p.isProcessing THEN [p EXCEPT !.ticks = @ + 1]
  ELSE [p EXCEPT !.ticks = @ + 1, !.passes = @ + 1, !.isProcessing = TRUE,
                 !.queue = RunningOrder, !.pc = "get",
                 !.executed = {}, !.skipped = {}]

PassFrame ==
  /\ RiskUntouched
  /\ UNCHANGED <<orderVars, coordVars, posVars, fillsDone, sched, eventBus,
                 wsClient, executionInterval, ingestion, parquet, gapRepair,
                 fillFlow,
                 rejections,
                 backtest,
                 gridStrategy,
                 strategyManager,
                 dailyFlow>>

\* the execution interval fires
PassTick ==
  /\ executionInterval
  /\ execPass.ticks < MaxTicks
  /\ execPass' = beginExecutePass(execPass)
  /\ UNCHANGED tradingStrategy
  /\ PassFrame

\* getStrategy has returned the strategy in hand: an active strategy is
\* executed up to its generateSignal, any other is passed over
PassGet ==
  /\ execPass.pc = "get"
  /\ LET id == Head(execPass.queue)
         s == tradingStrategy[id]
         t == executeBegin(s)
     IN IF s.status = "active"
        THEN /\ tradingStrategy' = [tradingStrategy EXCEPT ![id] = t]
             /\ execPass' =
                  IF t.executing > s.executing
                  THEN [execPass EXCEPT !.pc = "execute", !.executed = @ \cup {id}]
                  ELSE nextStrategy([execPass EXCEPT !.executed = @ \cup {id}],
                                    "limit")
        ELSE /\ UNCHANGED tradingStrategy
             /\ execPass' = nextStrategy([execPass EXCEPT !.skipped = @ \cup {id}],
                                         "skipped")
  /\ PassFrame

\* generateSignal of the strategy in hand has settled and execute returns
PassExecuteEnd ==
  \E outcome \in SignalOutcomes :
    /\ execPass.pc = "execute"
    /\ LET id == Head(execPass.queue)
       IN /\ outcome = "signal" => tradingStrategy[id].signals < MaxSignals
          /\ tradingStrategy' = [tradingStrategy EXCEPT ![id] = executeEnd(@, outcome)]
          /\ execPass' =
               nextStrategy([execPass EXCEPT
                               !.failed = IF outcome = "throw" THEN @ \cup {id}
                                          ELSE @],
                            outcome)
    /\ PassFrame

PassInit == execPass = NewExecPass

PassNext ==
  \/ StrategyActivate
  \/ PassTick
  \/ PassGet
  \/ PassExecuteEnd

(***************************************************************************)
(* OrderManager.processOrder: the catch block                              *)
(***************************************************************************)
\* nothing has failed.  failed holds the orders whose processing has thrown,
\* rejectedLog the orders orderRejected was emitted for, in order
NewRejections == [failed |-> {}, rejectedLog |-> <<>>]

\* the catch block leaves the order's status alone
processOrderCatchMutKeepStatus(S, w) == SetPc(S, w, "persistRejected")

\* processOrder's catch block up to `await this.persistOrder(order)`
processOrderCatch(S, w) ==
  SetPc([S EXCEPT !.orders[w.order] = updateStatus(@, "rejected")],
        w, "persistRejected")

\* a step of processOrder inside the try block throws (the submission, the
\* simulated execution or a listener of an event it emits)
WorkerFailed ==
  \E w \in worker :
    /\ w.pc \in {"persistOpen", "delay1", "persistPartial", "delay2", "persistFinal"}
    /\ ApplyOM(processOrderCatch(OMState, w))
    /\ rejections' = [rejections EXCEPT !.failed = @ \cup {w.order}]
    /\ RiskUntouched
    /\ UNCHANGED <<coordVars, posVars, fillsDone, sched, tradingStrategy,
                   eventBus, wsClient, executionInterval, ingestion, parquet,
                   gapRepair, fillFlow, execPass,
                 backtest,
                 gridStrategy,
                 strategyManager,
                 dailyFlow>>

\* the catch block after its persist: emit orderRejected, then processQueue
\* goes on
WorkerRejected ==
  \E w \in worker :
    /\ w.pc = "persistRejected"
    /\ ApplyOM(workerLoop(OMState, w))
    /\ rejections' = [rejections EXCEPT !.rejectedLog = Append(@, w.order)]
    /\ RiskUntouched
    /\ UNCHANGED <<coordVars, posVars, fillsDone, sched, tradingStrategy,
                   eventBus, wsClient, executionInterval, ingestion, parquet,
                   gapRepair, fillFlow, execPass,
                 backtest,
                 gridStrategy,
                 strategyManager,
                 dailyFlow>>

RejectInit == rejections = NewRejections

(***************************************************************************)
(* BacktestEngine.run over a MomentumStrategy instance                     *)
(* Money is in cents, quantities in thousandths of a unit, fractions of    *)
(* the balance in basis points, percentages in hundredths; divisions       *)
(* truncate.  A null indicator is 0: generateSignal tests `!ema`, which is *)
(* true of both.                                                           *)
(***************************************************************************)
MaxCandles == 60
MaxRuns == 2
MaxElapsed == 1
initialBalance == 1000000
takerFeePerMille == 2
slippageBps == 5
positionSize == 1500
trailingStopPercent == 3
minTrendStrength == 50
minTrendCandles == 10
fastEma == 12
slowEma == 26
recentWindow == 20
QuantityScale == 1000
Infinity == 99999999
NoPosition == [side |-> "none", amount |-> 0, trailingStop |-> 0]

\* n candles whose closes move linearly from first to last
linearCandles(n, first, last) ==
  [i \in 1..n |->
     [timestamp |-> i,
      close |-> IF last >= first
                THEN first + ((last - first) * (i - 1)) \div (n - 1)
                ELSE first - ((first - last) * (i - 1)) \div (n - 1)]]

RisingCandles == linearCandles(MaxCandles, 10000, 16000)

HistoricalData ==
  {linearCandles(n, ends[1], ends[2]) :
     n \in {MaxCandles \div 2, MaxCandles},
     ends \in {<<10000, 16000>>, <<16000, 10000>>, <<10000, 10000>>}}

RECURSIVE emaFrom(_, _, _, _)
emaFrom(data, i, ema, period) ==
  IF i > Len(data) THEN ema
  ELSE emaFrom(data, i + 1,
               (2 * data[i] + (period - 1) * ema) \div (period + 1), period)

calculateEMA(data, period) ==
  IF Len(data) < period THEN 0
  ELSE emaFrom(data, period + 1,
               SumSeq(SubSeq(data, 1, period)) \div period, period)

calculateIndicators(candles) ==
  LET closes == [i \in 1..Len(candles) |-> candles[i].close] IN
  [ema12 |-> calculateEMA(closes, fastEma),
   ema26 |-> calculateEMA(closes, slowEma)]

formatMarketData(candle, allData, index) ==
  LET recentCandles == SubSeq(allData, Max(1, index - recentWindow), index) IN
  [price |-> candle.close,
   recentCandles |-> recentCandles,
   indicators |-> calculateIndicators(recentCandles)]

\* histogram = macdLine - 0.8 * macdLine, kept in tenths
calculateMACD(indicators) ==
  LET macdLine == indicators.ema12 - indicators.ema26 IN
  [line |-> macdLine, histogram |-> 10 * macdLine - 8 * macdLine]

calculateTrendStrength(marketData) ==
  LET rc == marketData.recentCandles
      upMoves == Cardinality({i \in 2..Len(rc) : rc[i].close > rc[i-1].close})
      downMoves == Cardinality({i \in 2..Len(rc) : rc[i].close < rc[i-1].close})
      totalMoves == upMoves + downMoves
  IN IF Len(rc) < minTrendCandles \/ totalMoves = 0 THEN 0
     ELSE (Abs(upMoves - downMoves) * 100) \div totalMoves

calculatePositionSize(trendStrength) ==
  (positionSize * (50 + trendStrength \div 2)) \div 100

NewMomentumStrategy ==
  [position |-> NoPosition, highestPrice |-> 0, lowestPrice |-> Infinity]

HoldSignal == [action |-> "hold", amount |-> 0, price |-> 0]

recordEntry(s, side, amount, price, trailingStop) ==
  [s EXCEPT !.position = [side |-> side, amount |-> amount,
                          trailingStop |-> trailingStop],
            !.highestPrice = IF side = "long" THEN price ELSE @,
            !.lowestPrice = IF side = "long" THEN @ ELSE price]

checkExitSignals(s, marketData, macd) ==
  LET price == marketData.price
      indicators == marketData.indicators
      long == s.position.side = "long"
      s1 == IF long /\ price > s.highestPrice
            THEN [s EXCEPT !.highestPrice = price,
                           !.position.trailingStop =
                             (price * (100 - trailingStopPercent)) \div 100]
            ELSE IF ~long /\ price < s.lowestPrice
            THEN [s EXCEPT !.lowestPrice = price,
                           !.position.trailingStop =
                             (price * (100 + trailingStopPercent)) \div 100]
            ELSE s
      closed == IF long
                THEN [s1 EXCEPT !.position = NoPosition, !.highestPrice = 0]
                ELSE [s1 EXCEPT !.position = NoPosition, !.lowestPrice = Infinity]
      exit == [action |-> IF long THEN "sell" ELSE "buy",
               amount |-> s.position.amount, price |-> price]
      stopped == IF long THEN price <= s1.position.trailingStop
                 ELSE price >= s1.position.trailingStop
      crossed == IF long
                 THEN indicators.ema12 < indicators.ema26 /\ macd.histogram < 0
                 ELSE indicators.ema12 > indicators.ema26 /\ macd.histogram > 0
  IN IF stopped \/ crossed
     THEN [signal |-> exit, strategy |-> closed]
     ELSE [signal |-> HoldSignal, strategy |-> s1]

generateSignal(s, marketData) ==
  LET price == marketData.price
      indicators == marketData.indicators
      macd == calculateMACD(indicators)
      trendStrength == calculateTrendStrength(marketData)
      amount == calculatePositionSize(trendStrength)
  IN
  IF indicators.ema12 = 0 \/ indicators.ema26 = 0
  THEN [signal |-> HoldSignal, strategy |-> s]
  ELSE IF s.position # NoPosition
  THEN checkExitSignals(s, marketData, macd)
  ELSE IF /\ indicators.ema12 > indicators.ema26 /\ macd.histogram > 0
          /\ trendStrength >= minTrendStrength
  THEN [signal |-> [action |-> "buy", amount |-> amount, price |-> price],
        strategy |-> recordEntry(s, "long", amount, price,
                       (price * (100 - trailingStopPercent)) \div 100)]
  ELSE IF /\ indicators.ema12 < indicators.ema26 /\ macd.histogram < 0
          /\ trendStrength >= minTrendStrength
  THEN [signal |-> [action |-> "sell", amount |-> amount, price |-> price],
        strategy |-> recordEntry(s, "short", amount, price,
                       (price * (100 + trailingStopPercent)) \div 100)]
  ELSE [signal |-> HoldSignal, strategy |-> s]

calculateExecutionPrice(side, targetPrice) ==
  IF side = "buy"
  THEN (targetPrice * (10000 + slippageBps)) \div 10000
  ELSE (targetPrice * (10000 - slippageBps)) \div 10000

\* an amount of at most 1 (10000 basis points) is a fraction of the balance
normalizeAmount(b, amount, price) ==
  IF amount > 0 /\ amount <= 10000
  THEN ((((b.balance \div 100) * amount) \div 100) * QuantityScale) \div price
  ELSE amount

executeBuy(b, price, amount, timestamp) ==
  LET cost == (amount * price) \div QuantityScale
      fee == (cost * takerFeePerMille) \div 1000
      totalCost == cost + fee
  IN IF totalCost > b.balance THEN b
     ELSE [b EXCEPT !.balance = @ - totalCost,
                    !.holdings = @ + amount,
                    !.trades = Append(@, [timestamp |-> timestamp,
                                 side |-> "buy", amount |-> amount,
                                 price |-> price, fee |-> fee,
                                 balance |-> b.balance - totalCost])]

executeSell(b, price, amount, timestamp) ==
  LET proceeds == (amount * price) \div QuantityScale
      fee == (proceeds * takerFeePerMille) \div 1000
      netProceeds == proceeds - fee
  IN IF amount > b.holdings THEN b
     ELSE [b EXCEPT !.balance = @ + netProceeds,
                    !.holdings = @ - amount,
                    !.trades = Append(@, [timestamp |-> timestamp,
                                 side |-> "sell", amount |-> amount,
                                 price |-> price, fee |-> fee,
                                 balance |-> b.balance + netProceeds])]

executeSignal(b, signal, timestamp) ==
  LET executionPrice == calculateExecutionPrice(signal.action, signal.price)
      normalizedAmount == normalizeAmount(b, signal.amount, executionPrice)
  IN IF normalizedAmount <= 0 THEN b
     ELSE IF signal.action = "buy"
     THEN executeBuy(b, executionPrice, normalizedAmount, timestamp)
     ELSE executeSell(b, executionPrice, normalizedAmount, timestamp)

recordEquity(b, timestamp, currentPrice) ==
  LET holdingsValue == (b.holdings * currentPrice) \div QuantityScale IN
  [b EXCEPT !.equityCurve = Append(@, [timestamp |-> timestamp,
                               balance |-> b.balance,
                               holdingsValue |-> holdingsValue,
                               totalEquity |-> b.balance + holdingsValue])]

closeAllPositions(b, lastCandle) ==
  IF b.holdings > 0
  THEN executeSell(b, lastCandle.close, b.holdings, lastCandle.timestamp)
  ELSE b

\* the equity peak and the largest drawdown, in hundredths of a percent of
\* the peak, over the points from i on
RECURSIVE drawdownsFrom(_, _, _, _, _)
drawdownsFrom(curve, i, peak, maxDrawdown, maxPercent) ==
  IF i > Len(curve)
  THEN [maxDrawdown |-> maxDrawdown, maxDrawdownPercent |-> maxPercent]
  ELSE LET peak1 == Max(peak, curve[i].totalEquity)
           drawdown == peak1 - curve[i].totalEquity
       IN IF drawdown > maxDrawdown
          THEN drawdownsFrom(curve, i + 1, peak1, drawdown,
                             (drawdown * 100) \div (peak1 \div 100))
          ELSE drawdownsFrom(curve, i + 1, peak1, maxDrawdown, maxPercent)

calculateDrawdowns(b) ==
  drawdownsFrom(b.equityCurve, 1,
                IF b.equityCurve # <<>> /\ b.equityCurve[1].totalEquity # 0
                THEN b.equityCurve[1].totalEquity ELSE initialBalance, 0, 0)

\* the buy/sell pairs of the trade list: [won |-> the pair's pnl > 0]
RECURSIVE completedTradesFrom(_, _, _)
completedTradesFrom(trades, i, currentPosition) ==
  IF i > Len(trades) THEN <<>>
  ELSE IF trades[i].side = "buy"
  THEN completedTradesFrom(trades, i + 1, <<trades[i]>>)
  ELSE IF currentPosition # <<>>
  THEN <<[won |-> trades[i].price > currentPosition[1].price]>>
       \o completedTradesFrom(trades, i + 1, <<>>)
  ELSE completedTradesFrom(trades, i + 1, currentPosition)

calculateTradeStats(b) ==
  LET completedTrades == completedTradesFrom(b.trades, 1, <<>>)
      winners == Cardinality({i \in 1..Len(completedTrades) :
                                completedTrades[i].won})
  IN IF completedTrades = <<>>
     THEN [winningTrades |-> 0, losingTrades |-> 0, winRate |-> 0]
     ELSE [winningTrades |-> winners,
           losingTrades |-> Len(completedTrades) - winners,
           winRate |-> (winners * 100) \div Len(completedTrades)]

calculateResults(b, duration) ==
  LET drawdowns == calculateDrawdowns(b)
      tradeStats == calculateTradeStats(b)
  IN
  [summary |-> [initialBalance |-> initialBalance,
                finalBalance |-> b.balance,
                totalReturn |-> ((b.balance - initialBalance) * 100)
                                 \div (initialBalance \div 100),
                totalTrades |-> Len(b.trades),
                winningTrades |-> tradeStats.winningTrades,
                losingTrades |-> tradeStats.losingTrades,
                winRate |-> tradeStats.winRate,
                maxDrawdown |-> drawdowns.maxDrawdown,
                maxDrawdownPercent |-> drawdowns.maxDrawdownPercent,
                duration |-> duration],
   trades |-> b.trades,
   equityCurve |-> b.equityCurve]

\* reset() clears the engine's own fields; the strategy is the caller's object
reset(b) ==
  [b EXCEPT !.trades = <<>>, !.equityCurve = <<>>,
            !.balance = initialBalance, !.holdings = 0]

NewBacktest ==
  [pc |-> "idle", data |-> <<>>, i |-> 1,
   balance |-> initialBalance, holdings |-> 0, trades |-> <<>>,
   equityCurve |-> <<>>, strategy |-> NewMomentumStrategy,
   reused |-> FALSE, results |-> <<>>]

processCandle(b) ==
  LET candle == b.data[b.i]
      marketData == formatMarketData(candle, b.data, b.i)
      g == generateSignal(b.strategy, marketData)
      b1 == [b EXCEPT !.strategy = g.strategy]
      b2 == IF g.signal.action # "hold"
            THEN executeSignal(b1, g.signal, candle.timestamp) ELSE b1
  IN [recordEquity(b2, candle.timestamp, candle.close) EXCEPT !.i = @ + 1]

finishRun(b, duration) ==
  LET b1 == closeAllPositions(b, b.data[Len(b.data)])
  IN [b1 EXCEPT !.pc = "idle",
                !.results = Append(@, calculateResults(b1, duration))]

BacktestFrame ==
  /\ RiskUntouched
  /\ UNCHANGED <<orderVars, coordVars, posVars, fillsDone, sched,
                 tradingStrategy, eventBus, wsClient, executionInterval,
                 ingestion, parquet, gapRepair, fillFlow, execPass,
                 rejections,
                 gridStrategy,
                 strategyManager,
                 dailyFlow>>

\* run(strategy, historicalData) on a fresh engine and strategy
BacktestRun ==
  /\ backtest.pc = "idle"
  /\ backtest.results = <<>>
  /\ \E historicalData \in HistoricalData :
       backtest' = [reset(backtest) EXCEPT !.pc = "running", !.i = 1,
                                           !.data = historicalData,
                                           !.strategy = NewMomentumStrategy]
  /\ BacktestFrame

\* run again with the same config and data, and the same strategy: either
\* the instance of the first run or a new one constructed the same way
BacktestRunAgain ==
  /\ backtest.pc = "idle"
  /\ Len(backtest.results) \in 1..(MaxRuns - 1)
  /\ \E sameInstance \in BOOLEAN :
       backtest' = [reset(backtest) EXCEPT !.pc = "running", !.i = 1,
                      !.reused = sameInstance,
                      !.strategy = IF sameInstance THEN @
                                   ELSE NewMomentumStrategy]
  /\ BacktestFrame

\* one pass of the candle loop
BacktestCandle ==
  /\ backtest.pc = "running"
  /\ backtest.i <= Len(backtest.data)
  /\ backtest' = processCandle(backtest)
  /\ BacktestFrame

\* after the loop: closeAllPositions, calculateResults with the elapsed
\* wall-clock time
BacktestFinish ==
  /\ backtest.pc = "running"
  /\ backtest.i > Len(backtest.data)
  /\ \E duration \in 0..MaxElapsed : backtest' = finishRun(backtest, duration)
  /\ BacktestFrame

BacktestInit == backtest = NewBacktest

(***************************************************************************)
(* GridTradingStrategy.generateSignal                                      *)
(* Time is in minutes; a null centerPrice is 0 (`!this.centerPrice`).      *)
(***************************************************************************)
MaxGridTime == 6
MaxGridCalls == 4
gridLevels == 10
gridSpacingPerMille == 5
gridRange == 5
rebalanceThreshold == 80
rebalanceInterval == 5
GridPrices == {830, 1000, 1030, 1045}

NewGridStrategy ==
  [grids |-> <<>>, centerPrice |-> 0, lastRebalance |-> NoTime,
   now |-> 0, calls |-> 0, price |-> 0,
   signal |-> [action |-> "none", rebalance |-> FALSE]]

gridLevel(centerPrice, i) ==
  [level |-> i,
   price |-> (centerPrice * (1000 + i * gridSpacingPerMille)) \div 1000,
   side |-> IF i < 0 THEN "buy" ELSE "sell",
   status |-> "pending"]

\* levels -halfLevels..halfLevels without the centre, ascending by price
initializeGrids(centerPrice) ==
  LET halfLevels == gridLevels \div 2 IN
  [k \in 1..(2 * halfLevels) |->
     gridLevel(centerPrice,
               IF k <= halfLevels THEN k - halfLevels - 1 ELSE k - halfLevels)]

shouldRebalance(g, currentPrice) ==
  /\ g.centerPrice # 0
  /\ \/ currentPrice * 10000 >= g.centerPrice * (100 + gridRange) * rebalanceThreshold
     \/ currentPrice * 10000 <= g.centerPrice * (100 - gridRange) * rebalanceThreshold
  /\ ~(g.lastRebalance # NoTime /\ g.now - g.lastRebalance < rebalanceInterval)

rebalanceGrid(g, newCenterPrice) ==
  [g EXCEPT !.centerPrice = newCenterPrice,
            !.lastRebalance = g.now,
            !.grids = initializeGrids(newCenterPrice),
            !.signal = [action |-> "hold", rebalance |-> TRUE]]

\* index of the first pending level the price has crossed, 0 if none
checkFilledLevels(g, currentPrice) ==
  LET crossed == {k \in 1..Len(g.grids) :
                    /\ g.grids[k].status = "pending"
                    /\ \/ g.grids[k].side = "buy" /\ currentPrice <= g.grids[k].price
                       \/ g.grids[k].side = "sell" /\ currentPrice >= g.grids[k].price}
  IN IF crossed = {} THEN 0
     ELSE CHOOSE k \in crossed : \A other \in crossed : k <= other

handleFilledLevel(g, k, currentPrice) ==
  LET filledGrid == g.grids[k]
      oppositeSide == IF filledGrid.side = "buy" THEN "sell" ELSE "buy"
      nextLevel == IF filledGrid.side = "buy" THEN filledGrid.level + 1
                   ELSE filledGrid.level - 1
      g1 == [g EXCEPT !.grids[k].status = "filled",
                      !.signal = [action |-> oppositeSide, rebalance |-> FALSE]]
      found == {j \in 1..Len(g1.grids) : g1.grids[j].level = nextLevel}
      existing == IF found = {} THEN 0
                  ELSE CHOOSE j \in found : \A other \in found : j <= other
  IN IF existing # 0 /\ g1.grids[existing].status = "pending"
     THEN g1
     ELSE [g1 EXCEPT !.grids = Append(@,
             [gridLevel(g.centerPrice, nextLevel) EXCEPT !.side = oppositeSide])]

gridGenerateSignal(g, price) ==
  LET g0 == [g EXCEPT !.calls = @ + 1, !.price = price]
      g1 == IF g0.centerPrice = 0
            THEN [g0 EXCEPT !.centerPrice = price,
                            !.grids = initializeGrids(price)]
            ELSE g0
      filledLevel == checkFilledLevels(g1, price)
  IN IF shouldRebalance(g1, price) THEN rebalanceGrid(g1, price)
     ELSE IF filledLevel # 0 THEN handleFilledLevel(g1, filledLevel, price)
     ELSE [g1 EXCEPT !.signal = [action |-> "hold", rebalance |-> FALSE]]

GridFrame ==
  /\ RiskUntouched
  /\ UNCHANGED <<orderVars, coordVars, posVars, fillsDone, sched,
                 tradingStrategy, eventBus, wsClient, executionInterval,
                 ingestion, parquet, gapRepair, fillFlow, execPass,
                 rejections, backtest,
                 strategyManager,
                 dailyFlow>>

GridGenerateSignal ==
  /\ gridStrategy.calls < MaxGridCalls
  /\ \E price \in GridPrices :
       gridStrategy' = gridGenerateSignal(gridStrategy, price)
  /\ GridFrame

\* a minute passes
GridClock ==
  /\ gridStrategy.now < MaxGridTime
  /\ gridStrategy' = [gridStrategy EXCEPT !.now = @ + 1]
  /\ GridFrame

GridInit == gridStrategy = NewGridStrategy

(***************************************************************************)
(* StrategyManager.createStrategy / activateStrategy / deactivateStrategy  *)
(* / deleteStrategy over the strategies Map, the runningStrategies Set and *)
(* Redis.  A call runs up to its Redis command and goes on when the reply  *)
(* arrives; the commands of the one connection (and the microtasks of the  *)
(* mock store) are answered in the order they were issued.                 *)
(***************************************************************************)
MaxManaged == 1
MaxInFlight == 3
ManagedIds == 1..MaxManaged

NoManaged == [present |-> FALSE, strategy |-> NewTradingStrategy]
NoData == "none"

NewStrategyManager ==
  [strategies |-> [id \in ManagedIds |-> NoManaged],
   runningStrategies |-> {},
   redis |-> [id \in ManagedIds |-> NoData],
   pending |-> <<>>,
   created |-> 0,
   overlapped |-> FALSE]

redisCommand(call, command, id, data) ==
  [call |-> call, command |-> command, id |-> id, data |-> data]

\* persistStrategy: redisClient.set(key, strategy.toJSON())
persistStrategy(m, call, id) ==
  [m EXCEPT !.pending = Append(@, redisCommand(call, "set", id,
                                     m.strategies[id].strategy.status))]

\* reconstructStrategy(data) and strategies.set
reconstructStrategy(m, id, data) ==
  [m EXCEPT !.strategies[id] =
     [present |-> TRUE, strategy |-> [NewTradingStrategy EXCEPT !.status = data]]]

createStrategy(m) ==
  LET id == m.created + 1
      m1 == [m EXCEPT !.created = id,
                      !.strategies[id] = [present |-> TRUE,
                                          strategy |-> NewTradingStrategy]]
  IN persistStrategy(m1, "createStrategy", id)

\* activateStrategy from `strategy.activate()` to the persist
activateStrategyFound(m, id) ==
  IF m.strategies[id].strategy.status = "active" THEN m
  ELSE persistStrategy(
         [m EXCEPT !.strategies[id].strategy = activate(@),
                   !.overlapped = @ \/ \E k \in 1..Len(m.pending) :
                        /\ m.pending[k].id = id
                        /\ m.pending[k].call = "deactivateStrategy"],
         "activateStrategy", id)

\* deactivateStrategy from `strategy.deactivate()` to the persist
deactivateStrategyFound(m, id) ==
  persistStrategy(
    [m EXCEPT !.strategies[id].strategy = deactivate(@),
              !.overlapped = @ \/ \E k \in 1..Len(m.pending) :
                   /\ m.pending[k].id = id
                   /\ m.pending[k].call = "activateStrategy"],
    "deactivateStrategy", id)

\* deleteStrategy from the removal from the tables to redisClient.del
deleteStrategyFound(m, id) ==
  [m EXCEPT !.runningStrategies = @ \ {id},
            !.strategies[id] = NoManaged,
            !.pending = Append(@, redisCommand("deleteStrategy", "del", id, NoData))]

strategyFound(m, call, id) ==
  CASE call = "activateStrategy" -> activateStrategyFound(m, id)
    [] call = "deactivateStrategy" -> deactivateStrategyFound(m, id)
    [] call = "deleteStrategy" -> deleteStrategyFound(m, id)

\* getStrategy at the head of a call: the memory cache, else Redis
getStrategy(m, call, id) ==
  IF m.strategies[id].present THEN strategyFound(m, call, id)
  ELSE [m EXCEPT !.pending = Append(@, redisCommand(call, "get", id, NoData))]

\* deactivateStrategy after its persist, mutated: the id stays in the set
deactivateStrategyEndMutKeepRunning(m, id) == m

\* deactivateStrategy after its persist: runningStrategies.delete
deactivateStrategyEnd(m, id) ==
  [m EXCEPT !.runningStrategies = @ \ {id}]

\* activateStrategy after its persist: runningStrategies.add
activateStrategyEnd(m, id) ==
  [m EXCEPT !.runningStrategies = @ \cup {id}]

\* Redis executes the oldest command and the call that issued it goes on
redisReply(m) ==
  LET c == Head(m.pending)
      m1 == [m EXCEPT !.pending = Tail(@)]
  IN CASE c.command = "set" ->
            LET m2 == [m1 EXCEPT !.redis[c.id] = c.data] IN
            IF c.call = "activateStrategy" THEN activateStrategyEnd(m2, c.id)
            ELSE IF c.call = "deactivateStrategy" THEN deactivateStrategyEnd(m2, c.id)
            ELSE m2
       [] c.command = "del" -> [m1 EXCEPT !.redis[c.id] = NoData]
       [] c.command = "get" ->
            IF m1.redis[c.id] = NoData THEN m1
            ELSE strategyFound(reconstructStrategy(m1, c.id, m1.redis[c.id]),
                               c.call, c.id)

ManagerFrame ==
  /\ RiskUntouched
  /\ UNCHANGED <<orderVars, coordVars, posVars, fillsDone, sched,
                 tradingStrategy, eventBus, wsClient, executionInterval,
                 ingestion, parquet, gapRepair, fillFlow, execPass,
                 rejections, backtest, gridStrategy,
                 dailyFlow>>

ManagerCreateStrategy ==
  /\ strategyManager.created < MaxManaged
  /\ Len(strategyManager.pending) < MaxInFlight
  /\ strategyManager' = createStrategy(strategyManager)
  /\ ManagerFrame

ManagerActivateStrategy ==
  /\ Len(strategyManager.pending) < MaxInFlight
  /\ \E id \in 1..strategyManager.created :
       strategyManager' = getStrategy(strategyManager, "activateStrategy", id)
  /\ ManagerFrame

ManagerDeactivateStrategy ==
  /\ Len(strategyManager.pending) < MaxInFlight
  /\ \E id \in 1..strategyManager.created :
       strategyManager' = getStrategy(strategyManager, "deactivateStrategy", id)
  /\ ManagerFrame

ManagerDeleteStrategy ==
  /\ Len(strategyManager.pending) < MaxInFlight
  /\ \E id \in 1..strategyManager.created :
       strategyManager' = getStrategy(strategyManager, "deleteStrategy", id)
  /\ ManagerFrame

ManagerRedisReply ==
  /\ strategyManager.pending # <<>>
  /\ strategyManager' = redisReply(strategyManager)
  /\ ManagerFrame

ManagerInit == strategyManager = NewStrategyManager

(***************************************************************************)
(* Strategy signals against the daily trade count: handleStrategySignal    *)
(* asks checkTrade, whose checkDailyLimits reads dailyStats.tradeCount, and *)
(* creates the order; handleTrade counts a trade when an order has filled.  *)
(* dailyFlow.orders are the orders created that way, in creation order,     *)
(* each with the local day of its creation.                                 *)
(***************************************************************************)
MaxDailySignals == 3

NewDailyFlow == [orders |-> <<>>]

\* createOrder for an approved signal: the order is stored as pending
createSignalOrder(d, sig, riskCheck) ==
  [d EXCEPT !.orders = Append(@, [status |-> "pending", day |-> DateOf(now),
                                  approved |-> riskCheck.allowed,
                                  amount |-> sig.amount, price |-> sig.price])]

\* the cancel loop of handleCircuitBreaker over the user's orders of the flow
cancelSignalOrders(d) ==
  [d EXCEPT !.orders = [i \in 1..Len(@) |->
                          IF @[i].status = "pending"
                          THEN [@[i] EXCEPT !.status = "cancelled"] ELSE @[i]]]

DailyFrame ==
  UNCHANGED <<activating, posVars, fillsDone, sched,
              tradingStrategy, eventBus, wsClient, executionInterval,
              ingestion, parquet, gapRepair, fillFlow, execPass,
              rejections, backtest, gridStrategy, strategyManager>>

\* handleStrategySignal(signal) for a signal of an active strategy: the risk
\* check (a triggered breaker runs handleCircuitBreaker), then createOrder
\* when the check allowed the trade
DailyStrategySignal ==
  \E s \in StrategyIds, sig \in SignalSet, pf \in SignalPortfolios :
    /\ strategies[s].exists /\ strategies[s].status = "active"
    /\ cbHandler.pc = "idle"
    /\ LET u == strategies[s].userId
           tp == [amount |-> sig.amount, price |-> sig.price, marketPrice |-> sig.price,
                  expectedPrice |-> 0, executionPrice |-> 0, hasPair |-> TRUE]
           res == checkTrade(u, tp, pf)
           C0 == CoordState(OMState)
           C1 == IF res.triggered THEN handleCircuitBreaker(C0, u) ELSE C0
           D1 == IF res.triggered THEN cancelSignalOrders(dailyFlow) ELSE dailyFlow
           D2 == IF signalPasses(res) THEN createSignalOrder(D1, sig, res) ELSE D1
       IN /\ (signalPasses(res) => Len(dailyFlow.orders) < MaxDailySignals)
          /\ ApplyCheck(u, res)
          /\ ApplyCoord(C1)
          /\ dailyFlow' = D2
    /\ UNCHANGED now
    /\ DailyFrame

\* an order of the flow fills: orderFilled -> handleOrderFilled -> publish
\* trading:orderFilled -> handleTrade({order, userId})
DailyOrderFilled ==
  \E u \in Users, i \in 1..Len(dailyFlow.orders) :
    /\ dailyFlow.orders[i].status = "pending"
    /\ dailyFlow' = [dailyFlow EXCEPT !.orders[i].status = "filled"]
    /\ ApplyRisk(handleTrade(RiskState, u,
                             [filledAmount |-> dailyFlow.orders[i].amount,
                              averagePrice |-> dailyFlow.orders[i].price,
                              realizedPnL |-> 0]))
    /\ lastCheck' = NoCheck
    /\ UNCHANGED <<now, orderVars, coordVars>>
    /\ DailyFrame

\* the clock of the daily flow
DailyClock ==
  /\ now < MaxTime
  /\ now' = now + 1
  /\ lastCheck' = NoCheck
  /\ UNCHANGED <<userData, peakEquity, consecutiveLosses, circuitBreakers,
                 orderVars, coordVars, dailyFlow>>
  /\ DailyFrame

DailyInit == dailyFlow = NewDailyFlow

Init ==
  /\ RiskInit /\ OrderInit /\ CoordInit /\ PosInit /\ SchedInit /\ fillsDone = 0
  /\ StrategyInit
  /\ BusInit
  /\ WsInit
  /\ IngestInit
  /\ ParquetInit
  /\ GapInit
  /\ FillInit
  /\ PassInit
  /\ RejectInit
  /\ BacktestInit
  /\ GridInit
  /\ ManagerInit
  /\ DailyInit

(***************************************************************************)
(* Spec: coordinator, order manager and risk manager together              *)
(***************************************************************************)
Next ==
  \/ CreateStrategy
  \/ ActivateStrategyBegin
  \/ ActivateStrategyEnd
  \/ HandleStrategySignal
  \/ HandleRuleTrigger
  \/ CreateOrderEnqueue
  \/ WorkerOpened
  \/ WorkerFirstFill
  \/ WorkerPartialEmitted
  \/ WorkerSecondFill
  \/ WorkerFilled
  \/ HandlerDeactivated
  \/ HandlerCancelled

Spec == Init /\ [][Next]_vars

(***************************************************************************)
(* SpecOrders: the order manager under its callers' requests               *)
(***************************************************************************)
OrderParamsSet ==
  { [amount |-> 2, price |-> 0, type |-> "market"],
    [amount |-> 4, price |-> 100, type |-> "limit"],
    [amount |-> 0, price |-> 100, type |-> "limit"] }

\* createOrder(userId, params) up to its persist
CreateOrder ==
  \E u \in Users, op \in OrderParamsSet :
    /\ NextOrderId <= MaxOrders
    /\ LET p == [userId |-> u, type |-> op.type, amount |-> op.amount, price |-> op.price]
       IN ApplyOM(createOrderStore(OMState, p, "api", FALSE))
    /\ RiskUntouched
    /\ UNCHANGED <<coordVars, posVars, fillsDone, sched, extVars>>

OrdersNext ==
  \/ CreateOrder
  \/ CreateOrderEnqueue
  \/ WorkerOpened
  \/ WorkerFirstFill
  \/ WorkerPartialEmitted
  \/ WorkerSecondFill
  \/ WorkerFilled
  \/ CancelOrder
  \/ UpdateOrder

SpecOrders == Init /\ [][OrdersNext]_vars

(***************************************************************************)
(* SpecRisk: the risk manager through its public operations                *)
(***************************************************************************)
RiskNext ==
  \/ RiskCheckTrade
  \/ RiskHandleTrade
  \/ ResetCircuitBreaker
  \/ AdvanceTime

SpecRisk == Init /\ [][RiskNext]_vars


(***************************************************************************)
(* SpecSched: the two timer loops                                          *)
(***************************************************************************)
SchedNext ==
  \/ StrategyTick
  \/ StrategyPassStep
  \/ RuleTick
  \/ RulePassStep

SpecSched == Init /\ [][SchedNext]_vars

(***************************************************************************)
(* SpecPos: the position manager under the fills it is handed              *)
(***************************************************************************)
PosNext ==
  \/ UpdatePositionFromTrade
  \/ GetPositionLoaded
  \/ LockAmount
  \/ UnlockAmount
  \/ RestartPositions

SpecPos == Init /\ [][PosNext]_vars

(***************************************************************************)
(* SpecStrategy: TradingStrategy objects under their callers' requests     *)
(***************************************************************************)
StrategyNext ==
  \/ StrategyActivate
  \/ StrategyDeactivate
  \/ StrategyPause
  \/ StrategyResume
  \/ StrategyRecordTrade
  \/ StrategyExecuteBegin
  \/ StrategyExecuteEnd

SpecStrategy == Init /\ [][StrategyNext]_vars

(***************************************************************************)
(* SpecBus: the event bus under subscribe, unsubscribe and publish calls   *)
(***************************************************************************)
BusNext ==
  \/ Subscribe
  \/ Unsubscribe
  \/ Publish
  \/ ResumePublish

SpecBus == Init /\ [][BusNext]_vars

(***************************************************************************)
(* SpecWs: one venue client under socket events and its aggregator         *)
(***************************************************************************)
WsNext ==
  \/ InitializeExchanges
  \/ SocketOpen
  \/ SocketClose
  \/ ReconnectTimer
  \/ WsSubscribe
  \/ WsUnsubscribe
  \/ AggregatorShutdown

SpecWs == Init /\ [][WsNext]_vars

(***************************************************************************)
(* SpecShutdown: the venue client and the strategy scheduler shutting down *)
(***************************************************************************)
ShutdownNext ==
  \/ InitializeExchanges
  \/ SocketOpen
  \/ SocketClose
  \/ ReconnectTimer
  \/ WsSubscribe
  \/ WsUnsubscribe
  \/ AggregatorShutdown
  \/ StrategyTick
  \/ StrategyPassStep
  \/ StopExecutionLoop

SpecShutdown == Init /\ [][ShutdownNext]_vars

(***************************************************************************)
(* SpecIngest: one ingestion job and a client that may cancel it           *)
(***************************************************************************)
IngestNext ==
  \/ IngestBegin
  \/ IngestRunning
  \/ IngestCheck
  \/ IngestFetch
  \/ IngestStore
  \/ IngestAdvance
  \/ IngestComplete
  \/ IngestFail
  \/ CancelJob

SpecIngest == Init /\ [][IngestNext]_vars

\* every await of a started ingest call settles: the database calls, the
\* exchange request (ccxt times it out), the file write and the sleeps
IngestStep ==
  \/ IngestRunning
  \/ IngestCheck
  \/ IngestFetch
  \/ IngestStore
  \/ IngestAdvance
  \/ IngestComplete
  \/ IngestFail

SpecIngestLive == Init /\ [][IngestNext]_vars /\ WF_vars(IngestStep)





(***************************************************************************)
(* Properties                                                              *)
(***************************************************************************)
\* C1: every order the coordinator created, for a strategy signal or for a
\* rule's place_order action, was created after a checkTrade that returned
\* allowed = true.
C1_OrderOnlyAfterAllowedCheck ==
  \A o \in OrderIds : orders[o].origin \in {"signal", "rule"} => orders[o].approved

\* C2: an order whose status is filled, cancelled, rejected or expired keeps
\* that status in every later step, whatever createOrder, cancelOrder,
\* updateOrder and the queue worker do.
C2_TerminalStatusIsFinal ==
  [][\A o \in OrderIds :
       orders[o].status \in TerminalStatuses => orders'[o].status = orders[o].status]_vars

\* C3: a checkTrade that finds the breaker set less than
\* circuitBreakerDuration after triggeredAt returns allowed = false; one that
\* finds it set circuitBreakerDuration or more after triggeredAt clears it and
\* its circuit-breaker check allows.
C3_BreakerHoldsUntilExpiry ==
  (lastCheck.user # "none" /\ lastCheck.breakerWasActive) =>
    IF lastCheck.at - lastCheck.triggeredAt < circuitBreakerDuration
    THEN ~lastCheck.allowed /\ ~lastCheck.checks["circuitBreaker"] /\ ~lastCheck.cleared
    ELSE lastCheck.cleared /\ lastCheck.checks["circuitBreaker"]

\* a checkTrade exactly circuitBreakerDuration after the trigger cleared the
\* breaker and allowed the trade
C3_Witness ==
  /\ lastCheck.user # "none"
  /\ lastCheck.breakerWasActive
  /\ lastCheck.at - lastCheck.triggeredAt = circuitBreakerDuration
  /\ lastCheck.cleared
  /\ lastCheck.allowed
  /\ ~circuitBreakers[lastCheck.user].active

\* C4: a checkTrade that returns with drawdown, consecutiveLosses or
\* dailyLimits among its failed checks has set the user's breaker at that
\* moment and emitted risk:circuitBreakerTriggered.
C4_CriticalFailureTriggers ==
  (lastCheck.user # "none" /\ lastCheck.failedChecks \cap CriticalChecks # {}) =>
    /\ lastCheck.triggered
    /\ lastCheck.breakerAfter.active
    /\ lastCheck.breakerAfter.triggeredAt = lastCheck.at
    /\ lastCheck.breakerAfter.reasons = lastCheck.failedChecks \cap CriticalChecks
    /\ circuitBreakers[lastCheck.user] = lastCheck.breakerAfter

\* the documented example: realized loss 5100 of the day on initial equity
\* 100000 with maxDailyLoss 5%, breaker not set before, dailyLimits fails
C4_Witness ==
  /\ lastCheck.user # "none"
  /\ userData[lastCheck.user].dailyStats.realizedPnL = -5100
  /\ userData[lastCheck.user].initialEquity = 100000
  /\ ~lastCheck.breakerWasActive
  /\ lastCheck.failedChecks = {"dailyLimits"}
  /\ lastCheck.triggered
  /\ circuitBreakers[lastCheck.user].active

\* C5: when handleCircuitBreaker has finished for a user, every strategy of
\* the user is inactive and every order it found active and cancelled is
\* cancelled.
C5_HandledBreakerLeavesNothingActive ==
  \A u \in Users :
    cbDone[u].done => cbDone[u].strategiesInactive /\ cbDone[u].notCancelled = {}

\* C6: at most one strategy-execution pass and at most one rule-evaluation
\* pass is in progress at any time, and a tick that arrives while a pass of
\* its loop is in progress starts none.
C6_NoOverlappingPass ==
  /\ Cardinality(sched.strategies.passes) <= 1
  /\ Cardinality(sched.rules.passes) <= 1
  /\ (sched.strategies.passes # {} => sched.strategies.isProcessing)
  /\ (sched.rules.passes # {} => sched.rules.isProcessing)
  /\ (sched.strategies.lastTick.busy => ~sched.strategies.lastTick.started)
  /\ (sched.rules.lastTick.busy => ~sched.rules.lastTick.started)

\* a tick of each loop was dropped while the pass of an earlier tick of that
\* loop is still in progress
C6_Witness ==
  /\ sched.strategies.lastTick.busy
  /\ ~sched.strategies.lastTick.started
  /\ \E ps \in sched.strategies.passes : ps.id < sched.strategies.ticks
  /\ sched.rules.lastTick.busy
  /\ \E ps \in sched.rules.passes : ps.id < sched.rules.ticks

C8_EveryFillOnTheOneRecord ==
  \A k \in PositionKeys :
    (posCalls = {} /\ positions[k] # 0) =>
      /\ Len(posHeap[positions[k]].trades) = fillsDone
      /\ \A j \in 1..fillsDone : posHeap[positions[k]].trades[j].id = j
      /\ redisPositions[k].data.trades = posHeap[positions[k]].trades

\* C9: on every position availableAmount + lockedAmount = totalAmount,
\* totalAmount >= 0 and totalCost >= 0.
C9_PositionAmountsConsistent ==
  \A i \in 1..Len(posHeap) :
    /\ posHeap[i].availableAmount + posHeap[i].lockedAmount = posHeap[i].totalAmount
    /\ posHeap[i].totalAmount >= 0
    /\ posHeap[i].totalCost >= 0

\* C10: filledAmount + remainingAmount = amount for every order, in every
\* reachable state.
C10_FilledPlusRemainingIsAmount ==
  \A o \in OrderIds :
    orders[o].status # "none" =>
      orders[o].filledAmount + orders[o].remainingAmount = orders[o].amount

\* a limit order of 4 whose amount updateOrder lowered to 2 while it was
\* partially filled with 2
C10_Witness ==
  \E o \in OrderIds :
    /\ orders[o].type = "limit"
    /\ orders[o].status = "partial"
    /\ orders[o].trades = <<2>>
    /\ orders[o].amount = 2
    /\ orders[o].remainingAmount = 0
    /\ \E w \in worker : w.order = o /\ w.pc = "delay2"

\* C11: a strategy's status changes only along inactive->active,
\* active->paused, active->inactive, active->error, paused->active and
\* paused->inactive, and from error only deactivate (error->inactive)
\* changes it.
StatusTransitions ==
  {<<"inactive", "active">>, <<"active", "paused">>, <<"active", "inactive">>,
   <<"active", "error">>, <<"paused", "active">>, <<"paused", "inactive">>,
   <<"error", "inactive">>}

C11_StatusFollowsStateMachine ==
  [][\A id \in TradingStrategyIds :
       tradingStrategy'[id].status # tradingStrategy[id].status
         => <<tradingStrategy[id].status, tradingStrategy'[id].status>>
              \in StatusTransitions]_vars

\* C12: a handler that throws, rejects or times out during publish is
\* isolated: the other handlers are still invoked, the failure reaches
\* neither them nor the publisher, and every such failure is counted in
\* metrics.errors (and is not counted as handled).
C12_HandlerFailureCounted ==
  eventBus.metrics.errors = eventBus.failures

\* C13: with async=true a handler that has not completed does not delay the
\* start of any other handler of the same publish: while a publish waits
\* for a handler, every subscribed handler has already been started.
C13_AsyncHandlersStartTogether ==
  \A p \in 1..Len(eventBus.publishes) :
    (eventBus.publishes[p].async /\ eventBus.publishes[p].awaiting # NoSubscription)
      => eventBus.publishes[p].idx > Len(eventBus.subscribers)

\* C14: a handler subscribed with once=true is dispatched successfully at
\* most once, also when a second publish begins while the first is still
\* awaiting handlers.
C14_OnceHandlerAtMostOnce ==
  \A id \in 1..eventBus.subscribed :
    eventBus.created[id].once => eventBus.succeeded[id] <= 1

\* C15: each subscriber receives the events of one event name in the order
\* in which they were published, also when publishes overlap.
C15_DeliveredInPublishOrder ==
  \A id \in 1..eventBus.subscribed :
    \A i, j \in 1..Len(eventBus.delivered[id]) :
      i < j => eventBus.delivered[id][i] <= eventBus.delivered[id][j]

\* C16: within every publish the handlers are invoked in descending priority
\* order: no handler is invoked after a handler of lower priority.
C16_InvokedInPriorityOrder ==
  \A p \in 1..Len(eventBus.publishes) :
    LET inv == eventBus.publishes[p].invoked IN
    \A i, j \in 1..Len(inv) :
      i < j => eventBus.created[inv[i]].priority >= eventBus.created[inv[j]].priority

\* C17: venue reconnections are bounded: without an intervening successful
\* open the client makes at most maxReconnectAttempts reconnection attempts,
\* attempt n waits reconnectDelay * 2^(n-1), and the close that finds the
\* attempts exhausted emits the terminal event and leaves no reconnection
\* scheduled.
C17_ReconnectionsBounded ==
  /\ wsClient.sinceOpen <= maxReconnectAttempts
  /\ \A i \in 1..Len(wsClient.reconnecting) :
       LET r == wsClient.reconnecting[i]
       IN /\ r.attempt \in 1..maxReconnectAttempts
          /\ r.attempt = 1 => r.delay = reconnectDelay
          /\ r.attempt = 2 => r.delay = 2 * reconnectDelay
          /\ r.attempt = 3 => r.delay = 4 * reconnectDelay
  /\ wsClient.lastClose.exhausted =>
       /\ wsClient.lastClose.emitted
       /\ ~wsClient.lastClose.scheduled

C17_Witness ==
  /\ wsClient.lastClose.exhausted
  /\ wsClient.terminalEvents = 1
  /\ wsClient.sinceOpen = maxReconnectAttempts

\* C18: after a successful reconnection a subscribe message has been sent on
\* the new connection for every subscription the client remembers from
\* before the disconnect (one it had sent on an earlier connection).
C18_ResubscribedAfterReconnect ==
  (/\ wsClient.isConnected
   /\ wsClient.ws > 1
   /\ wsClient.sockets[wsClient.ws].state = "open")
    => \A key \in wsClient.subscriptions :
         (\E s \in 1..(wsClient.ws - 1) : key \in wsClient.sockets[s].sent)
           => key \in wsClient.sockets[wsClient.ws].sent

\* C19: after shutdown nothing restarts: once the venue client has been
\* disconnected it creates no socket and schedules no reconnect, and once
\* the execution loop has been stopped no strategy-scheduler tick runs.
C19_NothingAfterShutdown ==
  [][/\ wsClient.disconnected =>
         /\ wsClient'.created = wsClient.created
         /\ Len(wsClient'.reconnecting) <= Len(wsClient.reconnecting)
     /\ ~executionInterval =>
         sched'.strategies.ticks = sched.strategies.ticks]_vars

\* C20: the ingestor consults its job row on every chunk iteration: once a
\* cancellation has been recorded the job starts no further chunk (it
\* fetches and stores at most the chunk that was in flight).
C20_NoChunkAfterCancellation ==
  ingestion.cancelRecorded =>
    /\ ingestion.chunksStarted = ingestion.startedAtCancel
    /\ ingestion.chunksStored <= ingestion.startedAtCancel

SpecParquet == Init /\ [][ParquetNext]_vars

SpecGaps == Init /\ [][GapNext]_vars

SpecFills == Init /\ [][FillNext]_vars

SpecPass == Init /\ [][PassNext]_vars

(***************************************************************************)
(* SpecReject: the order manager with steps of processOrder failing         *)
(***************************************************************************)
RejectNext ==
  \/ CreateOrder
  \/ CreateOrderEnqueue
  \/ WorkerOpened
  \/ WorkerFirstFill
  \/ WorkerPartialEmitted
  \/ WorkerSecondFill
  \/ WorkerFilled
  \/ WorkerFailed
  \/ WorkerRejected
  \/ CancelOrder

SpecReject == Init /\ [][RejectNext]_vars

BacktestNext ==
  \/ BacktestRun
  \/ BacktestRunAgain
  \/ BacktestCandle
  \/ BacktestFinish

SpecBacktest == Init /\ [][BacktestNext]_vars

GridNext ==
  \/ GridGenerateSignal
  \/ GridClock

SpecGrid == Init /\ [][GridNext]_vars

ManagerNext ==
  \/ ManagerCreateStrategy
  \/ ManagerActivateStrategy
  \/ ManagerDeactivateStrategy
  \/ ManagerDeleteStrategy
  \/ ManagerRedisReply

SpecManager == Init /\ [][ManagerNext]_vars

\* the steps that happen once a persist, a submission or a simulated
\* execution returns
OrderStep ==
  \/ CreateOrderEnqueue
  \/ WorkerOpened
  \/ WorkerFirstFill
  \/ WorkerPartialEmitted
  \/ WorkerSecondFill
  \/ WorkerFilled
  \/ WorkerRejected

SpecOrdersLive == Init /\ [][RejectNext]_vars /\ WF_vars(OrderStep)

HeartbeatNext ==
  \/ InitializeExchanges
  \/ SocketOpen
  \/ SocketClose
  \/ ReconnectTimer
  \/ HeartbeatTimer

SpecHeartbeat == Init /\ [][HeartbeatNext]_vars

DailyNext ==
  \/ CreateStrategy
  \/ ActivateStrategyBegin
  \/ ActivateStrategyEnd
  \/ DailyStrategySignal
  \/ DailyOrderFilled
  \/ DailyClock
  \/ HandlerDeactivated

SpecDaily == Init /\ [][DailyNext]_vars

\* C21: every ingest call terminates: each pass of the chunk loop moves
\* currentDate strictly forward, a chunk is only fetched and stored while
\* currentDate is before endDate, and a call that has created its job
\* eventually returns or throws.
C21_IngestTerminates ==
  /\ [][(ingestion.pc = "progress" /\ ingestion'.pc = "check") =>
          ingestion'.currentDate > ingestion.currentDate]_vars
  /\ [](ingestion.pc \in {"fetch", "store", "progress"} =>
          ingestion.currentDate < ingestion.endDate)
  /\ (ingestion.pc = "created") ~> (ingestion.pc = "done")

C21_Witness ==
  /\ ingestion.pc = "done"
  /\ ingestion.result = "completed"
  /\ ingestion.chunksStored >= 2
  /\ ingestion.currentDate >= ingestion.endDate

\* C22: appendCandles calls on the same file do not lose candles: once no
\* call is in progress the file holds a candle for every timestamp of every
\* batch whose call has returned, overlapping calls included.
C22_NoCandleLost ==
  (\A w \in Writers : parquet.calls[w].pc = "idle") =>
    \A t \in parquet.returned :
      \E i \in 1..Len(parquet.file) : parseTimestamp(parquet.file[i].timestamp) = t

\* C23: when an appendCandles call returns, the file holds one candle per
\* timestamp in ascending order, and for every timestamp of the appended
\* batch the stored candle is the appended one (last write wins).
C23_LastWriteWins ==
  [][\A w \in Writers :
       (parquet.calls[w].pc = "writing" /\ parquet'.calls[w].pc = "idle") =>
         /\ \A i \in 1..(Len(parquet'.file) - 1) :
              parseTimestamp(parquet'.file[i].timestamp)
                < parseTimestamp(parquet'.file[i + 1].timestamp)
         /\ \A k \in 1..Len(parquet.calls[w].candles) :
              \E i \in 1..Len(parquet'.file) :
                readCandles(parquet'.file)[i] = parquet.calls[w].candles[k]]_vars

\* C24: a missing window larger than 1.5 timeframes is reported by
\* detectGaps and ingested by repairGaps with priority 2, and a detectGaps
\* that follows the completed repair (the exchange having every candle)
\* returns no gaps.
C24_RepairedGapsStayClosed ==
  /\ \A i \in 1..Len(gapRepair.jobs) : gapRepair.jobs[i].priority = 2
  /\ gapRepair.phase = "redetected" => gapRepair.detected = <<>>

\* the step is a checkTrade(u, tp, pf) call: it leaves that call's result
\* and state behind
IsCheckTrade(u, tp, pf) ==
  LET res == checkTrade(u, tp, pf)
  IN /\ lastCheck'.user = u
     /\ lastCheck'.checks = res.checks
     /\ userData' = res.after.ud
     /\ peakEquity' = res.after.pk
     /\ consecutiveLosses' = res.after.cl
     /\ circuitBreakers' = res.after.cb

\* C25: risk check idempotence: a checkTrade evaluated again at once, with
\* the same user, trade parameters and portfolio and nothing else having
\* happened, allows the same and fails the same checks as the first.
C25_CheckTradeIdempotent ==
  [][\A u \in Users, tp \in TradeParamsSet, pf \in PortfolioSet :
       IsCheckTrade(u, tp, pf) =>
         /\ checkTrade(u, tp, pf)'.allowed = checkTrade(u, tp, pf).allowed
         /\ checkTrade(u, tp, pf)'.failedChecks = checkTrade(u, tp, pf).failedChecks]_vars

\* the user's dailyStats are those of an earlier local day
StaleDailyStats(u) ==
  userData[u].initialized /\ userData[u].dailyStats.date # DateOf(now)

\* C26: dailyStats reset at the local-day boundary on first access: the
\* first checkTrade of a new day evaluates the daily limits on fresh
\* counters, and the first fill of a new day is accumulated into fresh
\* counters dated that day.
C26_DailyStatsResetOnNewDay ==
  [][\A u \in Users :
       StaleDailyStats(u) =>
         /\ \A tp \in TradeParamsSet, pf \in PortfolioSet :
              IsCheckTrade(u, tp, pf) =>
                lastCheck'.checks["dailyLimits"] =
                  checkDailyLimits(
                    [RiskState EXCEPT !.ud[u].dailyStats = createDailyStats(now)],
                    u, tp)[1]
         /\ (fillsDone' = fillsDone + 1 /\ userData'[u] # userData[u]) =>
              /\ userData'[u].dailyStats.date = DateOf(now)
              /\ userData'[u].dailyStats.tradeCount = 1]_vars

\* C27: for every fill delivered as trading:orderFilled, fills of the order
\* manager's own execution flow included, the trade observer has counted the
\* fill, has added its realized P&L to the daily realized P&L and has tracked
\* the consecutive losses (one more on a losing fill, 0 after a winning one).
C27_FillsObserved ==
  \A u \in Users :
    /\ userData[u].dailyStats.tradeCount = fillsDone
    /\ userData[u].dailyStats.realizedPnL = fillFlow.realized
    /\ consecutiveLosses[u] = fillFlow.losses

\* C28: an error raised by the execute of one strategy affects that strategy
\* only (its status becomes error, no other strategy changes), the pass
\* still visits every other running strategy, and the guard is released
\* when the pass ends, so that a later tick begins a pass.
C28_ErrorsIsolated ==
  /\ [](execPass.pc = "idle" => ~execPass.isProcessing)
  /\ [](execPass.pc = "idle" /\ execPass.passes > 0 =>
          execPass.executed \cup execPass.skipped = TradingStrategyIds)
  /\ [][\A id \in execPass'.failed \ execPass.failed :
          /\ tradingStrategy'[id].status = "error"
          /\ \A other \in TradingStrategyIds \ {id} :
               tradingStrategy'[other] = tradingStrategy[other]]_vars

C28_Witness ==
  /\ execPass.passes >= 2
  /\ execPass.pc = "idle"
  /\ "s1" \in execPass.failed
  /\ tradingStrategy["s1"].status = "error"
  /\ "s2" \in execPass.executed
  /\ "s1" \in execPass.skipped

\* C29: an order whose submission or simulated execution fails becomes
\* rejected, orderRejected is emitted for it once the catch block has
\* persisted it, and the worker goes on: while orders are queued one is
\* being processed.
C29_FailedOrderRejected ==
  /\ \A w \in worker : w.pc = "persistRejected" => orders[w.order].status = "rejected"
  /\ \A id \in rejections.failed :
       \/ \E w \in worker : w.order = id /\ w.pc = "persistRejected"
       \/ \E k \in 1..Len(rejections.rejectedLog) : rejections.rejectedLog[k] = id
  /\ Len(orderQueue) > 0 => worker # {}

\* the first order has been rejected and the worker executes the next one
C29_Witness ==
  /\ Len(rejections.rejectedLog) >= 1
  /\ orders[rejections.rejectedLog[1]].status = "rejected"
  /\ \E w \in worker : w.order # rejections.rejectedLog[1] /\ w.pc = "delay1"

\* C30: two backtest runs with the same config, the same strategy and the same
\* data return identical summary, trades and equityCurve, also when the
\* strategy instance of the first run is reused for the second.
C30_BacktestDeterministic ==
  Len(backtest.results) = MaxRuns =>
    /\ backtest.results[1].summary = backtest.results[2].summary
    /\ backtest.results[1].trades = backtest.results[2].trades
    /\ backtest.results[1].equityCurve = backtest.results[2].equityCurve

\* C31: the default momentum strategy backtested on 60 candles whose closes
\* rise linearly from 100 to 160 makes exactly one buy, followed by the forced
\* close at the final candle, with totalReturn > 0, winRate = 100% and
\* maxDrawdown% = 0.
C31_RisingTrendOneWinningBuy ==
  (Len(backtest.results) >= 1 /\ backtest.data = RisingCandles) =>
    LET r == backtest.results[1] IN
    /\ Len(r.trades) = 2
    /\ r.trades[1].side = "buy"
    /\ r.trades[2].side = "sell"
    /\ r.trades[2].timestamp = MaxCandles
    /\ r.summary.totalReturn > 0
    /\ r.summary.winRate = 100
    /\ r.summary.maxDrawdownPercent = 0

\* C32: a generateSignal call of the grid strategy that has a centre recentres
\* the grid only if the price is at least rebalanceThreshold * gridRange away
\* from the centre and at least 5 minutes have passed since the previous
\* rebalance; while the price is inside that band the centre and the grid
\* levels' prices stay as they were.
C32_RebalanceOnlyOutsideBand ==
  [][(gridStrategy'.calls = gridStrategy.calls + 1 /\ gridStrategy.centerPrice # 0) =>
       LET centre == gridStrategy.centerPrice
           price == gridStrategy'.price
           outside == Abs(price - centre) * 10000 >=
                        rebalanceThreshold * gridRange * centre
       IN /\ gridStrategy'.signal.rebalance =>
               /\ outside
               /\ \/ gridStrategy.lastRebalance = NoTime
                  \/ gridStrategy.now - gridStrategy.lastRebalance >= rebalanceInterval
          /\ ~outside =>
               /\ gridStrategy'.centerPrice = centre
               /\ gridStrategy'.lastRebalance = gridStrategy.lastRebalance
               /\ \A k \in 1..Len(gridStrategy.grids) :
                    gridStrategy'.grids[k].price = gridStrategy.grids[k].price]_vars

\* C33: every id in runningStrategies is the id of a strategy in the
\* strategies table, at every moment and under every interleaving of
\* createStrategy, activateStrategy, deactivateStrategy and deleteStrategy.
C33_RunningSubsetOfStrategies ==
  \A id \in strategyManager.runningStrategies :
    strategyManager.strategies[id].present

C34_ActiveBreakerNotExtended ==
  [][\A u \in Users, tp \in TradeParamsSet, pf \in PortfolioSet :
       (/\ IsCheckTrade(u, tp, pf)
        /\ circuitBreakers[u].active
        /\ now - circuitBreakers[u].triggeredAt < circuitBreakerDuration)
       => /\ ~checkTrade(u, tp, pf).triggered
          /\ circuitBreakers'[u].active
          /\ circuitBreakers'[u].triggeredAt = circuitBreakers[u].triggeredAt]_vars

\* C35: every order createOrder accepted is eventually taken from the queue
\* and leaves status pending, provided every persist, submission and
\* simulated execution returns; no order waits in the queue while no worker
\* is running, however the createOrder calls overlapped.
C35_AcceptedOrderProcessed ==
  /\ [](Len(orderQueue) > 0 => (processing /\ worker # {}))
  /\ \A id \in OrderIds :
       (orders[id].status = "pending") ~> (orders[id].status # "pending")

\* two overlapping createOrder calls were enqueued in the reverse order of
\* their creation, and both orders have been processed
C35_Witness ==
  /\ enqueuedLog = <<2, 1>>
  /\ openedLog = <<2, 1>>
  /\ orderQueue = <<>>
  /\ ~processing
  /\ \A id \in {1, 2} : orders[id].status \notin {"pending", "none"}

\* C36: an ingestion job whose status has been set to CANCELLED keeps that
\* status: no later step of the ingest call makes it RUNNING, COMPLETED or
\* FAILED, also when the cancellation is recorded during the last chunk or
\* while a failing fetch is being retried.
C36_CancelledIsFinal ==
  [][(ingestion.row.status = "CANCELLED" /\ ingestion.pc # "idle")
       => ingestion'.row.status = "CANCELLED"]_vars

\* C37: a venue client never has more than one reconnection scheduled, more
\* than one live socket or more than one heartbeat timer; after the heartbeat
\* watchdog force-terminates a stale connection exactly one reconnection
\* attempt follows and the attempt counter advances by one.
C37_OneReconnectionOneSocketOneTimer ==
  /\ Len(wsClient.reconnecting) <= 1
  /\ Cardinality({s \in SocketIds :
                    wsClient.sockets[s].state \in {"connecting", "open"}}) <= 1
  /\ wsClient.leakedTimers = 0

\* C39: the orders created from risk-approved strategy signals on one local
\* day never number more than maxDailyTrades for a user (there is one user),
\* also when several signals are handled before any of their orders fills.
C39_SignalOrdersWithinDailyLimit ==
  \A d \in 0..DateOf(MaxTime) :
    Cardinality({i \in 1..Len(dailyFlow.orders) :
                   dailyFlow.orders[i].approved /\ dailyFlow.orders[i].day = d})
      <= maxDailyTrades

\* C40: every handler that was subscribed when a publish began and was not
\* unsubscribed during it (here: is still subscribed when the publish has
\* ended) has been invoked exactly once by that publish, whatever was
\* subscribed or unsubscribed while the dispatch was in progress.
C40_SubscribedHandlerInvokedOnce ==
  \A p \in 1..Len(eventBus.publishes) :
    eventBus.publishes[p].done =>
      \A i \in 1..Len(eventBus.subscribers) :
        LET id == eventBus.subscribers[i].id
            inv == eventBus.publishes[p].invoked
        IN id <= eventBus.publishes[p].subscribedBefore
             => Cardinality({k \in 1..Len(inv) : inv[k] = id}) = 1

====
